---- MODULE Spec2Model ----
(***************************************************************************)
(* Station data ingestion pipeline of brownpaw: the yearly partitioned     *)
(* store (station_data_manager.py), the remote reading fetchers            *)
(* (realtime_data_service.py, daily_data_service.py) and the update        *)
(* orchestrators (daily_updater.py, daily_station_updater.py).             *)
(*                                                                         *)
(* Firestore documents are records with an "exists" flag; maps are         *)
(* functions whose DOMAIN is the set of keys present; an optional scalar   *)
(* (Python None or a number) is the empty tuple or a one-element tuple.    *)
(* Measurements are naturals that count thousandths of the unit.           *)
(***************************************************************************)
EXTENDS Integers, Sequences, FiniteSets, TLC

\* ------------------------------------------------------------------------
\* Value domains
\* ------------------------------------------------------------------------

\* Station codes as they appear in river_runs.
Stations == {"08GA072", "08NM116"}

\* Provider.ENVIRONMENT_CANADA.value.
ProviderValue == "environment_canada"

\* str(Provider.ENVIRONMENT_CANADA).
ProviderName == "Provider.ENVIRONMENT_CANADA"

\* The text f"{provider}" puts into a document id: the value when the
\* caller passes Provider.ENVIRONMENT_CANADA.value; when it passes the enum
\* member, the value or the member's name, as the interpreter formats a
\* str-mixin Enum (by value before Python 3.11, by name from 3.11 on).
Providers == {ProviderValue, ProviderName}

\* doc_id = f"{provider}_{station_id}".
DocId(provider, station_id) == <<provider, station_id>>

DocIds == { DocId(p, s) : p \in Providers, s \in Stations }

\* A date string "YYYY-MM-DD" is the pair <<YYYY, day>>: int(date_str[:4])
\* is its first component.
Dates == {<<2023, 365>>, <<2024, 1>>, <<2024, 2>>}

Years == {d[1] : d \in Dates}

\* Python None and a present value.
None == <<>>

Some(v) == <<v>>

\* The daily aggregates _parse_response and the aggregators build: a dict
\* holding mean_discharge and/or mean_level, never empty.
DailyAggregates ==
    { a \in UNION { [S -> {1, 2}] : S \in (SUBSET {"mean_discharge", "mean_level"}) \ {{}} } :
        "mean_level" \in DOMAIN a => a["mean_level"] = 1 }

\* The date -> aggregate maps organize_by_year files under one year:
\* non-empty, every key a date of that year.
YearMaps(year) ==
    UNION { [S -> DailyAggregates] :
              S \in (SUBSET { d \in Dates : d[1] = year }) \ {{}} }

\* A document that was never written.
NoDoc == [exists |-> FALSE]

\* firestore.SERVER_TIMESTAMP: the commit time, abstracted to one token.
SERVER_TIMESTAMP == "SERVER_TIMESTAMP"

\* ------------------------------------------------------------------------
\* State
\* ------------------------------------------------------------------------
VARIABLES
    metadata,          \* station_data/{provider}_{station}/metadata/info
    readings,          \* station_data/{provider}_{station}/readings/{year}
    station_current,   \* station_current/{provider}_{station}
    lastOp,            \* the store call that produced the current state
    repeated,          \* the last call repeated the arguments of the one before
    priorKeys          \* the keys the addressed document held before the call

storeVars == <<metadata, readings, station_current, lastOp, repeated, priorKeys>>

\* batch_write_station_data and its per-station caller
VARIABLES
    operations,        \* the operations argument
    op_index,          \* position of the for loop in operations
    batch,             \* the writes staged in the current WriteBatch
    batch_count,       \* batch_count
    commits,           \* the batches Firestore has committed, in order
    bpc,               \* where the call stands
    stats              \* the caller's status record

batchVars == <<operations, op_index, batch, batch_count, commits, bpc, stats>>

\* One _fetch_date_range call
VARIABLES
    service,           \* "realtime" (RealtimeDataService) or "daily" (DailyDataService)
    fpc,               \* where the call stands
    attempt,           \* the loop variable of "for attempt in range(MAX_RETRIES)"
    events,            \* the requests sent and the sleeps taken, in order
    outcomes,          \* the outcome of each request, in order
    response,          \* the feature list of the successful response
    result,            \* the value returned
    error              \* the exception raised to the caller

fetchVars == <<service, fpc, attempt, events, outcomes, response, result, error>>

\* get_stations_needing_update, and the runs of daily_updater.run_update
VARIABLES
    station_docs,      \* ids of the station_data/{doc_id} documents that exist
    enum_format,       \* how the interpreter formats a Provider member
    today,             \* the date of datetime.now() during the run
    rpc,               \* where run_update stands
    ec_stations,       \* the stations discovered from river_runs
    new_stations,      \* new_stations
    existing_stations, \* existing_stations
    pending,           \* the stations the running for loop has yet to process
    results,           \* results
    summary,           \* the value run_update returned last
    ingested,          \* stations a finished run backfilled with success
    needing            \* the last get_stations_needing_update call and its result

dailyVars == <<station_docs, enum_format, today, rpc, ec_stations, new_stations,
               existing_stations, pending, results, summary, ingested, needing>>

\* daily_station_updater.main
VARIABLES
    args,              \* the command line: dry_run, force_historical, limit
    mpc,               \* where main stands
    new_stats,         \* new_stats
    existing_stats,    \* existing_stats
    mutations          \* the store calls the run under way has made

mainVars == <<args, mpc, new_stats, existing_stats, mutations>>

\* realtime_updater.run_update and daily_realtime_updater.async_main
VARIABLES
    refresher,         \* the refresher that runs
    upc,               \* where the run stands
    tasks,             \* the coroutine of each station handed to asyncio.gather
    twin               \* per station, the stats of the same fetches under --dry-run

refreshVars == <<refresher, upc, tasks, twin>>

\* One call of a function that touches no state besides its arguments.
VARIABLES
    call,              \* the function called and its arguments
    ret                \* the value it returned

pureVars == <<call, ret>>

jobVars == <<mainVars, refreshVars, pureVars>>

vars == <<storeVars, batchVars, fetchVars, dailyVars, jobVars>>

\* ------------------------------------------------------------------------
\* Firestore set(data, merge=True) on a year document
\* ------------------------------------------------------------------------

\* Merge of one nested map level: the field mask of a merge holds the leaf
\* paths of the data, so a key of the data replaces or deep-merges, a key
\* only in the stored map is kept; an empty map in the data is itself a leaf
\* and replaces the stored map.
MergeFieldsIncrement(old, new) ==
    IF DOMAIN new = {} THEN new
    ELSE [f \in DOMAIN old \cup DOMAIN new |->
            IF f \notin DOMAIN new THEN old[f]
            ELSE IF f \in DOMAIN old THEN old[f] + new[f]
            ELSE new[f]]

MergeFields(old, new) ==
    IF DOMAIN new = {} THEN new
    ELSE [f \in DOMAIN old \cup DOMAIN new |->
            IF f \in DOMAIN new THEN new[f] ELSE old[f]]

MergeDaily(old, new) ==
    IF DOMAIN new = {} THEN new
    ELSE [d \in DOMAIN old \cup DOMAIN new |->
            IF d \notin DOMAIN new THEN old[d]
            ELSE IF d \in DOMAIN old THEN MergeFields(old[d], new[d])
            ELSE new[d]]

\* set(data) without merge, on a year document.
set_year_overwrite(old, data) ==
    [exists |-> TRUE, year |-> data.year,
     daily_readings |-> data.daily_readings,
     updated_at |-> data.updated_at]

set_merge(old, data) ==
    IF ~old.exists
    THEN [exists |-> TRUE, year |-> data.year,
          daily_readings |-> data.daily_readings,
          updated_at |-> data.updated_at]
    ELSE [exists |-> TRUE, year |-> data.year,
          daily_readings |-> MergeDaily(old.daily_readings, data.daily_readings),
          updated_at |-> data.updated_at]

\* The effect of write_yearly_readings on the readings collection.
YearlyWritten(store, provider, station_id, year, daily_readings) ==
    LET data == [year |-> year, daily_readings |-> daily_readings,
                 updated_at |-> SERVER_TIMESTAMP]
    IN  [store EXCEPT ![<<DocId(provider, station_id), year>>] = set_merge(@, data)]

\* StationDataManager.write_yearly_readings, called without a batch.
write_yearly_readings(provider, station_id, year, daily_readings) ==
    LET op == [type |-> "write_yearly_readings", provider |-> provider,
               station_id |-> station_id,
               year |-> year, daily_readings |-> daily_readings]
        doc == readings[<<DocId(provider, station_id), year>>]
    IN  /\ readings' = YearlyWritten(readings, provider, station_id, year,
                                     daily_readings)
        /\ lastOp' = op
        /\ repeated' = (lastOp = op)
        /\ priorKeys' = IF doc.exists THEN DOMAIN doc.daily_readings ELSE {}
        /\ UNCHANGED <<metadata, station_current>>
        /\ UNCHANGED <<batchVars, fetchVars, dailyVars, jobVars>>

\* ------------------------------------------------------------------------
\* The current-conditions document
\* ------------------------------------------------------------------------

\* Timestamps "YYYY-MM-DDTHH:00:00Z" as <<YYYY, day, hour>>.
HourlyTimes == {<<2024, 1, 23>>, <<2024, 2, 0>>}

\* The per-sample dict stored under a timestamp.
HourlySamples ==
    { [discharge |-> Some(1), level |-> None],
      [discharge |-> Some(2), level |-> Some(1)] }

\* hourly_readings arguments: any map from timestamps to samples.
HourlyMaps == UNION { [S -> HourlySamples] : S \in SUBSET HourlyTimes }

\* latest_reading arguments.
LatestReadings ==
    { [datetime |-> <<2024, 2, 0>>, discharge |-> Some(2), level |-> Some(1)],
      [datetime |-> <<2024, 2, 0>>, discharge |-> Some(1), level |-> None] }

Trends == {"rising", "falling", "stable"}

\* set(data) with merge on a current-conditions document: the nested
\* hourly_readings map keeps the stored samples the data does not name.
set_current_merge(old, data) ==
    IF ~old.exists THEN data
    ELSE [data EXCEPT !.hourly_readings =
            IF DOMAIN data.hourly_readings = {} THEN data.hourly_readings
            ELSE [t \in DOMAIN old.hourly_readings \cup DOMAIN data.hourly_readings |->
                    IF t \in DOMAIN data.hourly_readings
                    THEN data.hourly_readings[t]
                    ELSE old.hourly_readings[t]]]

\* current_ref.set(data): the document becomes the data.
set_current(old, data) == data

\* StationDataManager.write_current_station_data.
CurrentData(provider, station_id, latest_reading, trend, hourly_readings, updated_at) ==
    [exists |-> TRUE,
     station_id |-> station_id,
     provider |-> provider,
     latest_reading |-> latest_reading,
     trend |-> trend,
     hourly_readings |-> hourly_readings,
     readings_count |-> Cardinality(DOMAIN hourly_readings),
     updated_at |-> updated_at]

write_current_station_data(provider, station_id, latest_reading, trend, hourly_readings, updated_at) ==
    LET doc_id == DocId(provider, station_id)
        data == CurrentData(provider, station_id, latest_reading, trend,
                            hourly_readings, updated_at)
        op == [type |-> "write_current_station_data", provider |-> provider,
               station_id |-> station_id,
               latest_reading |-> latest_reading, trend |-> trend,
               hourly_readings |-> hourly_readings]
    IN  /\ station_current' =
              [station_current EXCEPT ![doc_id] = set_current(@, data)]
        /\ lastOp' = op
        /\ repeated' = (lastOp = op)
        /\ priorKeys' = IF station_current[doc_id].exists
                        THEN DOMAIN station_current[doc_id].hourly_readings
                        ELSE {}
        /\ UNCHANGED <<metadata, readings>>
        /\ UNCHANGED <<batchVars, fetchVars, dailyVars, jobVars>>

\* ------------------------------------------------------------------------
\* Specifications of the store operations
\* ------------------------------------------------------------------------
StoreEmpty ==
    /\ metadata = [d \in DocIds |-> NoDoc]
    /\ readings = [k \in DocIds \X Years |-> NoDoc]
    /\ station_current = [d \in DocIds |-> NoDoc]
    /\ lastOp = [type |-> "init"]
    /\ repeated = FALSE
    /\ priorKeys = {}

\* No batch_write_station_data call is under way.
BatchIdle ==
    /\ operations = <<>>
    /\ op_index = 0
    /\ batch = <<>>
    /\ batch_count = 0
    /\ commits = <<>>
    /\ bpc = "idle"
    /\ stats = [status |-> "idle"]

\* No _fetch_date_range call is under way.
FetchIdle ==
    /\ service = "realtime"
    /\ fpc = "idle"
    /\ attempt = 0
    /\ events = <<>>
    /\ outcomes = <<>>
    /\ response = <<>>
    /\ result = <<>>
    /\ error = "none"

\* What summary and needing hold before run_update has returned and before
\* get_stations_needing_update was called.
NoSummary == [success |-> 0, failed |-> 0]

NotAsked == [provider |-> ProviderValue, all |-> {}, new |-> {}, existing |-> {}]

\* No run_update is under way and no reconciliation was asked for.
DailyIdle ==
    /\ station_docs = {}
    /\ enum_format = "value"
    /\ today = <<2024, 2>>
    /\ rpc = "idle"
    /\ ec_stations = {}
    /\ new_stations = {}
    /\ existing_stations = {}
    /\ pending = <<>>
    /\ results = <<>>
    /\ summary = NoSummary
    /\ ingested = {}
    /\ needing = NotAsked

\* What args holds while main is not running.
NoArgs == [dry_run |-> FALSE, force_historical |-> FALSE, limit |-> None]

\* No daily_station_updater.main is under way.
MainIdle ==
    /\ args = NoArgs
    /\ mpc = "idle"
    /\ new_stats = <<>>
    /\ existing_stats = <<>>
    /\ mutations = 0

\* No refresher run is under way.
RefreshIdle ==
    /\ refresher = "realtime_updater"
    /\ upc = "idle"
    /\ tasks = <<>>
    /\ twin = <<>>

\* No function call is followed.
NoCall == [fn |-> "none"]
NotReturned == [returned |-> FALSE]

PureIdle ==
    /\ call = NoCall
    /\ ret = NotReturned

JobIdle == MainIdle /\ RefreshIdle /\ PureIdle

InitYearly == StoreEmpty /\ BatchIdle /\ FetchIdle /\ DailyIdle /\ JobIdle

\* The year documents the calls of this specification address: one station
\* with readings in two years, one with readings in a single year.
YearlyKeys == {<<"08GA072", 2023>>, <<"08GA072", 2024>>, <<"08NM116", 2023>>}

NextYearly ==
    \E k \in YearlyKeys :
        \E m \in YearMaps(k[2]) :
            write_yearly_readings(ProviderValue, k[1], k[2], m)

SpecYearly == InitYearly /\ [][NextYearly]_vars

InitCurrent == StoreEmpty /\ BatchIdle /\ FetchIdle /\ DailyIdle /\ JobIdle

NextCurrent ==
    \E s \in Stations, l \in LatestReadings, t \in Trends, h \in HourlyMaps :
        write_current_station_data(ProviderValue, s, l, t, h, "now")

SpecCurrent == InitCurrent /\ [][NextCurrent]_vars

\* ------------------------------------------------------------------------
\* Properties of the store operations
\* ------------------------------------------------------------------------

\* The daily_readings map of a year document, empty when it was never written.
DailyOf(store, provider, station_id, year) ==
    IF store[<<DocId(provider, station_id), year>>].exists
    THEN store[<<DocId(provider, station_id), year>>].daily_readings
    ELSE <<>>

C2_Idempotent ==
    [][(lastOp.type = "write_yearly_readings" /\ lastOp' = lastOp) =>
         DailyOf(readings', lastOp.provider, lastOp.station_id, lastOp.year)
             = DailyOf(readings, lastOp.provider, lastOp.station_id, lastOp.year)]_vars

\* The same call was made twice in a row on a document whose prior content
\* shows through: it holds a date outside the call, and a field of an
\* earlier aggregate under a date of the call.
C2_Witness ==
    /\ lastOp.type = "write_yearly_readings"
    /\ repeated
    /\ DOMAIN lastOp.daily_readings
           # DOMAIN DailyOf(readings, lastOp.provider, lastOp.station_id, lastOp.year)
    /\ \E d \in DOMAIN lastOp.daily_readings :
           DailyOf(readings, lastOp.provider, lastOp.station_id, lastOp.year)[d]
               # lastOp.daily_readings[d]

\* C3: after a write_yearly_readings call, the aggregate stored for each date
\* of the call is exactly the aggregate the call supplied.
C3_LastWriteWins ==
    lastOp.type = "write_yearly_readings" =>
        \A d \in DOMAIN lastOp.daily_readings :
            DailyOf(readings, lastOp.provider, lastOp.station_id, lastOp.year)[d]
                = lastOp.daily_readings[d]

\* C4: after write_current_station_data the hourly_readings map of the
\* station's current-conditions document is the hourly_readings argument.
C4_CurrentOverwritten ==
    lastOp.type = "write_current_station_data" =>
        LET doc == station_current[DocId(lastOp.provider, lastOp.station_id)]
        IN  /\ doc.exists
            /\ doc.hourly_readings = lastOp.hourly_readings
            /\ doc.latest_reading = lastOp.latest_reading
            /\ doc.trend = lastOp.trend

\* A refresh has replaced a document, and the new window lacks a timestamp
\* that an earlier refresh of the same station had stored.
C4_Witness ==
    /\ lastOp.type = "write_current_station_data"
    /\ \E t \in priorKeys : t \notin DOMAIN lastOp.hourly_readings
    /\ lastOp.hourly_readings # <<>>

\* ------------------------------------------------------------------------
\* batch_write_station_data
\* ------------------------------------------------------------------------

\* max_batch_size, the Firestore limit on the writes of one commit.
max_batch_size == 500

\* The longest operation lists hold this many full batches (and one more
\* operation).
MaxChunks == 2

\* The operation dicts the callers build.
CreateMetadataOp(provider, station_id) ==
    [type |-> "create_metadata", provider |-> provider,
     station_id |-> station_id,
     station_name |-> "Station", river_runs |-> <<>>]

UpdateMetadataOp(provider, station_id) ==
    [type |-> "update_metadata", provider |-> provider,
     station_id |-> station_id]

WriteReadingsOp(provider, station_id, year, daily_readings) ==
    [type |-> "write_readings", provider |-> provider,
     station_id |-> station_id, year |-> year,
     daily_readings |-> daily_readings]

\* One aggregate per date, as a backfill returns it.
BackfillMap(year) ==
    [d \in { x \in Dates : x[1] = year } |->
        [f \in {"mean_discharge", "mean_level"} |-> 1]]

\* process_new_station: the metadata creation, then one write per year.
NewStationOps(station_id) ==
    <<CreateMetadataOp(ProviderValue, station_id),
      WriteReadingsOp(ProviderValue, station_id, 2023, BackfillMap(2023)),
      WriteReadingsOp(ProviderValue, station_id, 2024, BackfillMap(2024))>>

\* process_existing_station with force_historical: one write per year, then
\* the refresh of last_updated.
ForceHistoricalOps(station_id) ==
    <<WriteReadingsOp(ProviderValue, station_id, 2023, BackfillMap(2023)),
      WriteReadingsOp(ProviderValue, station_id, 2024, BackfillMap(2024)),
      UpdateMetadataOp(ProviderValue, station_id)>>

\* A list of n operations over both stations: creations, writes and updates
\* in turn.
LongOps(n) ==
    [i \in 1..n |->
        LET s == IF i % 2 = 1 THEN "08GA072" ELSE "08NM116"
        IN  IF i <= 2 THEN CreateMetadataOp(ProviderValue, s)
            ELSE IF i % 3 = 0 THEN WriteReadingsOp(ProviderValue, s, 2023, BackfillMap(2023))
            ELSE IF i % 3 = 1 THEN WriteReadingsOp(ProviderValue, s, 2024, BackfillMap(2024))
            ELSE UpdateMetadataOp(ProviderValue, s)]

\* The lengths around the batch limit.
OpCounts ==
    {0, 1} \cup { k * max_batch_size + r : k \in 1..MaxChunks, r \in {-1, 0, 1} }

OpLists ==
    { NewStationOps(s) : s \in Stations }
        \cup { ForceHistoricalOps(s) : s \in Stations }
        \cup { LongOps(n) : n \in OpCounts }

\* The if/elif chain on op_type: each known type stages one write on the
\* batch, another type stages nothing.
StageOp(b, op) ==
    IF op.type \in {"create_metadata", "update_metadata", "write_readings"}
    THEN Append(b, op)
    ELSE b

\* batch_count >= max_batch_size, with the comparison reversed to >.
BatchFullStrict(count) == count > max_batch_size

\* "Commit batch if we hit the limit".
BatchFull(count) == count >= max_batch_size

\* The string Firestore stores for a provider argument: a Provider member is
\* a str whose content is its value.
StoredProvider(provider) ==
    IF provider = ProviderName THEN ProviderValue ELSE provider

\* create_station_metadata with a batch: batch.set(metadata_ref, metadata).
MetadataDoc(op) ==
    [exists |-> TRUE, station_id |-> op.station_id,
     provider |-> StoredProvider(op.provider),
     station_name |-> op.station_name,
     first_data_fetch |-> SERVER_TIMESTAMP,
     last_updated |-> SERVER_TIMESTAMP,
     is_active |-> TRUE,
     river_runs |-> op.river_runs,
     created_at |-> SERVER_TIMESTAMP]

MetadataCreated(meta, op) ==
    [meta EXCEPT ![DocId(op.provider, op.station_id)] = MetadataDoc(op)]

\* update_station_last_updated with a batch: batch.update(metadata_ref, ...).
MetadataUpdated(meta, op) ==
    [meta EXCEPT ![DocId(op.provider, op.station_id)].last_updated =
        SERVER_TIMESTAMP]

\* One write of a commit, applied to the store as the writes before it
\* left it; an update of a document that does not exist fails the commit.
ApplyOp(st, op) ==
    IF ~st.ok THEN st
    ELSE IF op.type = "create_metadata"
    THEN [st EXCEPT !.metadata = MetadataCreated(@, op)]
    ELSE IF op.type = "update_metadata"
    THEN IF st.metadata[DocId(op.provider, op.station_id)].exists
         THEN [st EXCEPT !.metadata = MetadataUpdated(@, op)]
         ELSE [st EXCEPT !.ok = FALSE]
    ELSE [st EXCEPT !.readings =
             YearlyWritten(@, op.provider, op.station_id, op.year,
                           op.daily_readings)]

\* The writes b[lo..hi] applied in order (the range is halved to keep the
\* evaluation shallow).
RECURSIVE ApplyRange(_, _, _, _)
ApplyRange(st, b, lo, hi) ==
    IF lo > hi THEN st
    ELSE IF lo = hi THEN ApplyOp(st, b[lo])
    ELSE LET mid == (lo + hi) \div 2
             left == ApplyRange(st, b, lo, mid)
         IN  IF left.ok THEN ApplyRange(left, b, mid + 1, hi) ELSE left

\* The writes of one commit are applied in order.
Applied(meta, rd, b, n) ==
    ApplyRange([ok |-> TRUE, metadata |-> meta, readings |-> rd], b, 1, n)

\* A failed commit applies none of its writes.
CommitFailed(b) == [ok |-> FALSE, metadata |-> metadata, readings |-> readings]

\* batch.commit(): atomic; it raises when a precondition fails or when the
\* backend or the network fails (failure), and applies every write otherwise.
Commit(b, failure) ==
    LET r == Applied(metadata, readings, b, Len(b))
    IN  IF failure \/ ~r.ok THEN CommitFailed(b) ELSE r

\* The per-station caller enters its try block and calls
\* batch_write_station_data(operations).
CallBatchWrite(ops) ==
    /\ bpc = "idle"
    /\ stats' = [status |-> "failed", error |-> FALSE]
    /\ operations' = ops
    /\ batch' = <<>>
    /\ batch_count' = 0
    /\ commits' = <<>>
    /\ op_index' = 1
    /\ bpc' = "loop"
    /\ UNCHANGED <<storeVars, fetchVars, dailyVars, jobVars>>

\* One iteration of "for op in operations".
BatchIterate ==
    /\ bpc = "loop"
    /\ op_index <= Len(operations)
    /\ LET staged == StageOp(batch, operations[op_index])
           count == batch_count + 1
       IN  IF BatchFull(count)
           THEN \E failure \in BOOLEAN :
                  LET r == Commit(staged, failure)
                  IN  IF r.ok
                      THEN /\ metadata' = r.metadata
                           /\ readings' = r.readings
                           /\ commits' = Append(commits, staged)
                           /\ batch' = <<>>
                           /\ batch_count' = 0
                           /\ op_index' = op_index + 1
                           /\ bpc' = "loop"
                      ELSE /\ metadata' = r.metadata
                           /\ readings' = r.readings
                           /\ batch' = staged
                           /\ batch_count' = count
                           /\ bpc' = "raised"
                           /\ UNCHANGED <<commits, op_index>>
           ELSE /\ batch' = staged
                /\ batch_count' = count
                /\ op_index' = op_index + 1
                /\ UNCHANGED <<metadata, readings, commits, bpc>>
    /\ UNCHANGED <<operations, stats, station_current, lastOp, repeated, priorKeys>>
    /\ UNCHANGED <<fetchVars, dailyVars, jobVars>>

\* "Commit remaining operations".
BatchFinish ==
    /\ bpc = "loop"
    /\ op_index > Len(operations)
    /\ IF batch_count > 0
       THEN \E failure \in BOOLEAN :
              LET r == Commit(batch, failure)
              IN  /\ metadata' = r.metadata
                  /\ readings' = r.readings
                  /\ IF r.ok
                     THEN /\ commits' = Append(commits, batch)
                          /\ bpc' = "done"
                     ELSE /\ bpc' = "raised"
                          /\ UNCHANGED commits
       ELSE /\ bpc' = "done"
            /\ UNCHANGED <<metadata, readings, commits>>
    /\ UNCHANGED <<operations, op_index, batch, batch_count, stats,
                   station_current, lastOp, repeated, priorKeys>>
    /\ UNCHANGED <<fetchVars, dailyVars, jobVars>>

\* The status the caller reports: 'success' is set after the call returned,
\* an exception leaves 'failed' and records the error.
StatsSetEarly(raised) == [status |-> "success", error |-> raised]

StatsAfterWrite(raised) ==
    IF raised THEN [status |-> "failed", error |-> TRUE]
    ELSE [status |-> "success", error |-> FALSE]

\* The call returns or raises into the caller's "except Exception".
CallerReturn ==
    /\ bpc \in {"done", "raised"}
    /\ stats' = StatsAfterWrite(bpc = "raised")
    /\ bpc' = IF bpc = "done" THEN "returned" ELSE "reported"
    /\ UNCHANGED <<operations, op_index, batch, batch_count, commits>>
    /\ UNCHANGED <<storeVars, fetchVars, dailyVars, jobVars>>

InitBatch == StoreEmpty /\ BatchIdle /\ FetchIdle /\ DailyIdle /\ JobIdle

NextBatch ==
    \/ \E ops \in OpLists : CallBatchWrite(ops)
    \/ BatchIterate
    \/ BatchFinish
    \/ CallerReturn

SpecBatch == InitBatch /\ [][NextBatch]_vars

\* ------------------------------------------------------------------------
\* Properties of batch_write_station_data
\* ------------------------------------------------------------------------

\* The committed operations, in commit order: the first n batches of cs
\* one after the other.
RECURSIVE Flatten(_, _)
Flatten(cs, n) ==
    IF n = 0 THEN <<>> ELSE Flatten(cs, n - 1) \o cs[n]

\* C7: no commit holds more than 500 operations; between iterations fewer
\* than 500 are queued (a full batch was committed at once); when the call
\* returns without a failed commit, the number of commits is n / 500 rounded
\* up (a final commit exactly when operations remained queued), no commit is
\* empty, and the commits one after the other are the operation list.
C7_BatchingDiscipline ==
    /\ \A i \in 1..Len(commits) : Len(commits[i]) <= 500
    /\ bpc = "loop" => Len(batch) < 500 /\ batch_count = Len(batch)
    /\ bpc \in {"done", "returned"} =>
          /\ Len(commits) = (Len(operations) + 499) \div 500
          /\ \A i \in 1..Len(commits) :
                Len(commits[i]) = IF i * 500 <= Len(operations) THEN 500
                                  ELSE Len(operations) % 500
          /\ Flatten(commits, Len(commits)) = operations

\* A call with more than two full batches returned: three commits were made.
C7_Witness ==
    /\ bpc = "returned"
    /\ Len(operations) = 2 * 500 + 1
    /\ Len(commits) = 3
    /\ Len(commits[3]) = 1

\* C8: when a commit fails, the store holds exactly the operations of the
\* batches committed before it, each applied once and in order, nothing of
\* the failed batch or of the operations after it, and the caller reports
\* the station as failed.
C8_FailedCommit ==
    bpc \in {"raised", "reported"} =>
        LET done == Flatten(commits, Len(commits))
            r == Applied([d \in DocIds |-> NoDoc],
                         [k \in DocIds \X Years |-> NoDoc], done, Len(done))
        IN  /\ done = SubSeq(operations, 1, Len(done))
            /\ Len(done) = Len(commits) * 500
            /\ Len(batch) >= 1
            /\ batch = SubSeq(operations, Len(done) + 1, Len(done) + Len(batch))
            /\ metadata = r.metadata
            /\ readings = r.readings
            /\ bpc = "reported" => stats.status = "failed" /\ stats.error

\* The second commit of a call failed after the first one had been applied,
\* and the caller has reported the failure.
C8_Witness ==
    /\ bpc = "reported"
    /\ Len(commits) = 1
    /\ Len(batch) = 500
    /\ metadata[DocId(ProviderValue, "08GA072")].exists

\* ------------------------------------------------------------------------
\* The remote reading fetchers: _fetch_date_range and _parse_response
\* ------------------------------------------------------------------------

MAX_RETRIES == 3

RETRY_DELAY == 2

\* The longest feature list of a response.
MaxFeatures == 2

\* One element of the "features" array of a response.  shape tells whether
\* the element is a JSON object; properties whether its "properties" member
\* is an object, null, another JSON value or absent; geometry the same for
\* "geometry".  key is DATETIME (realtime) or DATE (daily mean).
Feature(shape, properties, key, discharge, level, geometry) ==
    [shape |-> shape, properties |-> properties, key |-> key,
     discharge |-> discharge, level |-> level, geometry |-> geometry]

FeatureKeys(svc) ==
    IF svc = "realtime" THEN HourlyTimes ELSE {<<2023, 365>>, <<2024, 1>>}

Features(svc) ==
    { Feature("object", "object", k, m[1], m[2], "object") :
        k \in FeatureKeys(svc),
        m \in {<<Some(1), None>>, <<None, Some(1)>>, <<None, None>>} }
      \cup { Feature("object", "object", k, Some(2), Some(1), "null") :
               k \in {CHOOSE x \in FeatureKeys(svc) : TRUE} }
      \cup { Feature("not_object", "absent", <<>>, None, None, "absent"),
             Feature("object", "null", <<>>, None, None, "object"),
             Feature("object", "not_object", <<>>, None, None, "object"),
             Feature("object", "absent", <<>>, None, None, "object") }

Responses(svc) ==
    UNION { [1..n -> Features(svc)] : n \in 0..MaxFeatures }

\* feature.get('properties', {}) followed by props.get(...): calling .get on
\* a value that is not a dict raises AttributeError.
PropsRaise(f) ==
    \/ f.shape # "object"
    \/ f.properties \in {"null", "not_object"}

\* DailyMean.from_environment_canada_daily also evaluates
\* feature.get('geometry', {}).get('coordinates').
GeometryRaises(f) == f.geometry \in {"null", "not_object"}

\* Whether the body of the try block raises for this feature.  The handler
\* "except (KeyError, TypeError, ValueError)" does not catch AttributeError.
FeatureRaises(svc, f) ==
    \/ PropsRaise(f)
    \/ svc = "daily" /\ GeometryRaises(f)

\* props.get(...) of a feature that carries no properties reads None.
Discharge(f) == IF f.properties = "object" THEN f.discharge ELSE None

Level(f) == IF f.properties = "object" THEN f.level ELSE None

\* "Only add if we have at least one measurement"; and a parser that adds
\* every reading.
AddsAlways(f) == TRUE

HasMeasurement(f) == Discharge(f) # None \/ Level(f) # None

\* RealtimeDataService._parse_response: the reading dict appended.
RealtimeReading(f) ==
    [datetime |-> f.key, discharge |-> Discharge(f), level |-> Level(f)]

\* DailyDataService._parse_response: reading_data, with the fields present.
DailyReadingData(f) ==
    [x \in { k \in {"mean_discharge", "mean_level"} :
                \/ k = "mean_discharge" /\ Discharge(f) # None
                \/ k = "mean_level" /\ Level(f) # None } |->
        IF x = "mean_discharge" THEN Discharge(f)[1] ELSE Level(f)[1]]

\* The loop "for feature in features" over features[1..n]: raised is set by
\* the first feature whose exception leaves the function.
RECURSIVE ParseRealtime(_, _)
ParseRealtime(features, n) ==
    IF n = 0 THEN [raised |-> FALSE, readings |-> <<>>]
    ELSE LET prev == ParseRealtime(features, n - 1)
             f == features[n]
         IN  IF prev.raised THEN prev
             ELSE IF FeatureRaises("realtime", f) THEN [prev EXCEPT !.raised = TRUE]
             ELSE IF HasMeasurement(f)
             THEN [prev EXCEPT !.readings = Append(@, RealtimeReading(f))]
             ELSE prev

RECURSIVE ParseDaily(_, _)
ParseDaily(features, n) ==
    IF n = 0 THEN [raised |-> FALSE, readings |-> <<>>]
    ELSE LET prev == ParseDaily(features, n - 1)
             f == features[n]
         IN  IF prev.raised THEN prev
             ELSE IF FeatureRaises("daily", f) THEN [prev EXCEPT !.raised = TRUE]
             ELSE IF HasMeasurement(f)
             THEN [prev EXCEPT !.readings =
                     [d \in DOMAIN @ \cup {f.key} |->
                         IF d = f.key THEN DailyReadingData(f) ELSE @[d]]]
             ELSE prev

\* _parse_response of the service: a list of readings (realtime) or a map
\* from date to reading data (daily).
ParseResponse(svc, features) ==
    IF svc = "realtime" THEN ParseRealtime(features, Len(features))
    ELSE ParseDaily(features, Len(features))

\* "if attempt < self.MAX_RETRIES - 1", and the bound one too large.
MayRetryOnceMore(a) == a < MAX_RETRIES

MayRetry(a) == a < MAX_RETRIES - 1

\* The sleep before the next attempt.
Backoff(a) == RETRY_DELAY * (a + 1)

Request == <<"request", 0>>

Wait(seconds) == <<"wait", seconds>>

\* _fetch_date_range is called and enters the retry loop.
FetchCall(svc) ==
    /\ fpc = "idle"
    /\ service' = svc
    /\ fpc' = "try"
    /\ attempt' = 0
    /\ events' = <<>>
    /\ outcomes' = <<>>
    /\ response' = <<>>
    /\ result' = <<>>
    /\ error' = "none"
    /\ UNCHANGED <<storeVars, batchVars, dailyVars, jobVars>>

\* The request of one attempt succeeds with a response: the try block
\* returns self._parse_response(...), or the exception of _parse_response
\* leaves the function (it is none of the exceptions the loop catches).
FetchSucceeds(features) ==
    /\ fpc = "try"
    /\ events' = Append(events, Request)
    /\ outcomes' = Append(outcomes, "ok")
    /\ response' = features
    /\ LET p == ParseResponse(service, features)
       IN  IF p.raised
           THEN /\ fpc' = "raised"
                /\ error' = "AttributeError"
                /\ UNCHANGED result
           ELSE /\ fpc' = "returned"
                /\ result' = p.readings
                /\ UNCHANGED error
    /\ UNCHANGED <<service, attempt>>
    /\ UNCHANGED <<storeVars, batchVars, dailyVars, jobVars>>

\* The request of one attempt fails with a connection error, a timeout or
\* an HTTP error status: the handler sleeps and retries, or re-raises.
FetchFails ==
    /\ fpc = "try"
    /\ events' = Append(events, Request)
    /\ outcomes' = Append(outcomes, "error")
    /\ IF MayRetry(attempt)
       THEN /\ fpc' = "sleep"
            /\ UNCHANGED error
       ELSE /\ fpc' = "raised"
            /\ error' = "network"
    /\ UNCHANGED <<service, attempt, response, result>>
    /\ UNCHANGED <<storeVars, batchVars, dailyVars, jobVars>>

\* The sleep of the handler ends; the for loop takes the next attempt, or
\* runs out and the function returns its empty default.
FetchSleep ==
    /\ fpc = "sleep"
    /\ events' = Append(events, Wait(Backoff(attempt)))
    /\ attempt' = attempt + 1
    /\ fpc' = IF attempt + 1 < MAX_RETRIES THEN "try" ELSE "returned"
    /\ UNCHANGED <<service, outcomes, response, result, error>>
    /\ UNCHANGED <<storeVars, batchVars, dailyVars, jobVars>>

InitFetch == StoreEmpty /\ BatchIdle /\ FetchIdle /\ DailyIdle /\ JobIdle

NextFetch ==
    \/ \E svc \in {"realtime", "daily"} : FetchCall(svc)
    \/ \E features \in Responses(service) : FetchSucceeds(features)
    \/ FetchFails
    \/ FetchSleep

SpecFetch == InitFetch /\ [][NextFetch]_vars

\* ------------------------------------------------------------------------
\* Properties of the fetchers
\* ------------------------------------------------------------------------

\* request, wait 1 x RETRY_DELAY, request, wait 2 x RETRY_DELAY, request.
RetryPattern == <<Request, Wait(2), Request, Wait(4), Request>>

IsPrefix(p, q) == Len(p) <= Len(q) /\ p = SubSeq(q, 1, Len(p))

\* C9: the events of a call are a prefix of RetryPattern (so never a fourth
\* request, and no wait after the third one); a request is sent only when
\* all requests before it failed; the call returns only right after its
\* first successful request, and then the parsed readings of that response;
\* it raises the network error only after the third failed request; a call
\* whose request succeeded has ended.
C9_BoundedRetry ==
    /\ IsPrefix(events, RetryPattern)
    /\ \A i \in 1..(Len(outcomes) - 1) : outcomes[i] = "error"
    /\ fpc = "returned" =>
          /\ outcomes[Len(outcomes)] = "ok"
          /\ events[Len(events)] = Request
          /\ result = ParseResponse(service, response).readings
    /\ (fpc = "raised" /\ error = "network") =>
          /\ events = RetryPattern
          /\ outcomes = <<"error", "error", "error">>
    /\ (Len(outcomes) > 0 /\ outcomes[Len(outcomes)] = "ok") =>
          /\ fpc \in {"returned", "raised"}
          /\ fpc = "raised" => ParseResponse(service, response).raised

\* A call returned readings on its third request, after two failed requests
\* and the two sleeps.
C9_Witness ==
    /\ fpc = "returned"
    /\ outcomes = <<"error", "error", "ok">>
    /\ Len(events) = 5
    /\ Len(response) > 0
    /\ result # <<>>

\* The features _parse_response is to keep: objects whose properties are an
\* object holding a discharge or a level.
ValidFeature(f) ==
    /\ f.shape = "object"
    /\ f.properties = "object"
    /\ f.discharge # None \/ f.level # None

ValidFeatures(features) == SelectSeq(features, ValidFeature)

\* C10: whatever malformed features a response mixes with valid ones,
\* _parse_response raises nothing and returns the readings of the valid
\* features: the call that received the response returned what parsing the
\* valid features alone gives.
C10_MalformedSkipped ==
    (Len(outcomes) > 0 /\ outcomes[Len(outcomes)] = "ok") =>
        /\ fpc = "returned"
        /\ result = ParseResponse(service, ValidFeatures(response)).readings

\* ------------------------------------------------------------------------
\* Properties of the readings the fetchers return
\* ------------------------------------------------------------------------

\* The feature carries a discharge or a level.
Measured(f) ==
    f.shape = "object" /\ f.properties = "object"
        /\ (f.discharge # None \/ f.level # None)

\* C26: the result of _parse_response holds valid readings only, and all of
\* them.  When a call has returned, every reading of the result carries a
\* discharge or a level, and every feature of the response that carries one
\* of the two is in the result: for the realtime service as its reading,
\* for the daily service under its date, with its means unless a later
\* feature of the response has the same date.
C26_OnlyValidReadings ==
    fpc = "returned" =>
        IF service = "realtime"
        THEN /\ \A j \in 1..Len(result) :
                   result[j].discharge # None \/ result[j].level # None
             /\ \A i \in 1..Len(response) :
                   Measured(response[i]) =>
                       \E j \in 1..Len(result) :
                           /\ result[j].datetime = response[i].key
                           /\ result[j].discharge = response[i].discharge
                           /\ result[j].level = response[i].level
             /\ Len(result) = Cardinality({ i \in 1..Len(response) : Measured(response[i]) })
        ELSE /\ \A d \in DOMAIN result : DOMAIN result[d] # {}
             /\ DOMAIN result = { response[i].key :
                                     i \in { k \in 1..Len(response) : Measured(response[k]) } }
             /\ \A i \in 1..Len(response) :
                   (/\ Measured(response[i])
                    /\ \A k \in (i + 1)..Len(response) :
                          Measured(response[k]) => response[k].key # response[i].key)
                       => /\ ("mean_discharge" \in DOMAIN result[response[i].key]
                                 <=> response[i].discharge # None)
                          /\ ("mean_level" \in DOMAIN result[response[i].key]
                                 <=> response[i].level # None)

\* A realtime call returned for a response of two features, the first with
\* neither measurement, the second with a level only: the result is the one
\* reading of the second.
C26_Witness ==
    /\ fpc = "returned"
    /\ service = "realtime"
    /\ Len(response) = 2
    /\ response[1].shape = "object" /\ response[1].properties = "object"
    /\ response[1].discharge = None /\ response[1].level = None
    /\ response[2].discharge = None /\ response[2].level # None
    /\ Len(result) = 1
    /\ result[1].level = response[2].level

\* ------------------------------------------------------------------------
\* Reconciliation: get_stations_needing_update and daily_updater.run_update
\* ------------------------------------------------------------------------

\* f"{Provider.ENVIRONMENT_CANADA}" under the interpreter's formatting.
FormatEnum(fmt) == IF fmt = "value" THEN ProviderValue ELSE ProviderName

\* sorted(...) of a set of station ids.
StationOrder == <<"08GA072", "08NM116">>

Sorted(S) == SelectSeq(StationOrder, LAMBDA s : s \in S)

\* get_existing_stations: the ids under the provider prefix whose
\* metadata/info document exists (list_documents also yields the ids that
\* only hold subcollections).
get_existing_stations(meta, provider) ==
    { s \in Stations : meta[DocId(provider, s)].exists }

\* new_stations = all_station_ids - existing.
NewOf(all_station_ids, existing) == all_station_ids \ existing

\* existing_stations = all_station_ids & existing, and the store's set
\* taken as it is.
ExistingOfStore(all_station_ids, existing) == existing

ExistingOf(all_station_ids, existing) == all_station_ids \cap existing

\* StationDataManager.get_stations_needing_update.
get_stations_needing_update(provider, all_station_ids) ==
    /\ rpc = "idle"
    /\ LET existing == get_existing_stations(metadata, provider)
       IN  needing' = [provider |-> provider, all |-> all_station_ids,
                       new |-> NewOf(all_station_ids, existing),
                       existing |-> ExistingOf(all_station_ids, existing)]
    /\ UNCHANGED <<station_docs, enum_format, today, rpc, ec_stations,
                   new_stations, existing_stations, pending, results, summary,
                   ingested>>
    /\ UNCHANGED <<storeVars, batchVars, fetchVars, jobVars>>

\* run_update, "Separate new and existing stations": the station is existing
\* when the document station_data/{doc_id} itself exists.
DocExists(docs, fmt, station_id) == DocId(FormatEnum(fmt), station_id) \in docs

ClassifiedExisting(docs, fmt, stations) ==
    { s \in stations : DocExists(docs, fmt, s) }

ClassifiedNew(docs, fmt, stations) ==
    { s \in stations : ~DocExists(docs, fmt, s) }

\* The loop run_update enters next: the new stations, then the existing
\* ones, then the summary.
PhaseAfterStart(new, existing) ==
    IF new # {} THEN "new" ELSE IF existing # {} THEN "existing" ELSE "summary"

\* run_update up to the first station: discovery from river_runs (any set of
\* stations) and the classification.
RunUpdateStart(stations, date) ==
    /\ rpc = "idle"
    /\ mpc = "idle"
    /\ today' = date
    /\ summary' = NoSummary
    /\ needing' = NotAsked
    /\ ec_stations' = stations
    /\ new_stations' = ClassifiedNew(station_docs, enum_format, stations)
    /\ existing_stations' = ClassifiedExisting(station_docs, enum_format, stations)
    /\ results' = <<>>
    /\ rpc' = PhaseAfterStart(new_stations', existing_stations')
    /\ pending' = IF new_stations' # {} THEN Sorted(new_stations')
                  ELSE Sorted(existing_stations')
    /\ UNCHANGED <<station_docs, enum_format, ingested>>
    /\ UNCHANGED <<storeVars, batchVars, fetchVars, jobVars>>

\* DailyDataService.organize_by_year: year = int(date_str[:4]).
organize_by_year(daily) ==
    [y \in { d[1] : d \in DOMAIN daily } |->
        [d \in { x \in DOMAIN daily : x[1] = y } |-> daily[d]]]

\* "for year, yearly_readings in readings_by_year.items()": one
\* write_readings operation per year, the years in the order of the dates.
RECURSIVE ReadingsOps(_, _, _)
ReadingsOps(station_id, by_year, years) ==
    IF years = {} THEN <<>>
    ELSE LET y == CHOOSE x \in years : \A z \in years : x <= z
         IN  <<WriteReadingsOp(ProviderValue, station_id, y, by_year[y])>>
                 \o ReadingsOps(station_id, by_year, years \ {y})

\* batch_write_station_data on a list shorter than max_batch_size: the one
\* commit after the loop, or none for an empty list.
BatchWritten(ops, failure) ==
    IF ops = <<>> THEN [ok |-> TRUE, metadata |-> metadata, readings |-> readings]
    ELSE Commit(ops, failure)

\* What fetch_historical_data gives: the exception of _fetch_date_range, or
\* the date map it parsed (empty, one day, two days in two years).
HistoricalMaps ==
    { [d \in D |-> [f \in {"mean_discharge", "mean_level"} |-> 1]] :
        D \in { {}, {<<2023, 365>>}, {<<2023, 365>>, <<2024, 1>>} } }

HistoricalFetches ==
    { [raised |-> TRUE, readings |-> <<>>] }
        \cup { [raised |-> FALSE, readings |-> m] : m \in HistoricalMaps }

\* daily_updater.process_new_station: the status record returned and the
\* store it leaves.
process_new_station(station_id, fetched, failure) ==
    LET unchanged == [metadata |-> metadata, readings |-> readings]
        ops == ReadingsOps(station_id, organize_by_year(fetched.readings),
                           DOMAIN organize_by_year(fetched.readings))
        written == BatchWritten(ops, failure)
    IN  IF fetched.raised
        THEN [result |-> [station_id |-> station_id, status |-> "error"],
              store |-> unchanged]
        ELSE IF DOMAIN fetched.readings = {}
        THEN [result |-> [station_id |-> station_id,
                          status |-> "no_historical_data"],
              store |-> unchanged]
        ELSE IF ~written.ok
        THEN [result |-> [station_id |-> station_id, status |-> "error"],
              store |-> unchanged]
        ELSE [result |-> [station_id |-> station_id, status |-> "success",
                          days |-> Cardinality(DOMAIN fetched.readings)],
              store |-> [metadata |-> written.metadata,
                         readings |-> written.readings]]

\* The text of hourly_readings_csv is the sequence of its lines, a line the
\* sequence of its comma separated parts; '' is the empty sequence.
CsvHeader == <<"datetime", "discharge", "level">>

\* float(text) raises ValueError unless the text is a number.
IsFloat(text) == text \in {"1", "2", "3"}

Float(text) == IF text = "1" THEN 1 ELSE IF text = "2" THEN 2 ELSE 3

\* "if not line.strip(): continue" and "if len(parts) >= 3".
IsRow(line) == ~(Len(line) = 1 /\ line[1] = "") /\ Len(line) >= 3

\* A row whose float(parts[1]) or float(parts[2]) raises.
RowRaises(line) ==
    \/ line[2] # "" /\ ~IsFloat(line[2])
    \/ line[3] # "" /\ ~IsFloat(line[3])

\* The reading dict of a row: discharge and level only when the part is
\* not empty.
RowReading(line) ==
    [k \in {"datetime"} \cup { f \in {"discharge", "level"} :
                                 line[IF f = "discharge" THEN 2 ELSE 3] # "" } |->
        IF k = "datetime" THEN line[1]
        ELSE IF k = "discharge" THEN Float(line[2])
        ELSE Float(line[3])]

\* "Parse CSV to array" over lines[1..n].
RECURSIVE ParseCsv(_, _)
ParseCsv(lines, n) ==
    IF n = 0 THEN [raised |-> FALSE, readings |-> <<>>]
    ELSE LET prev == ParseCsv(lines, n - 1)
         IN  IF prev.raised \/ ~IsRow(lines[n]) THEN prev
             ELSE IF RowRaises(lines[n]) THEN [prev EXCEPT !.raised = TRUE]
             ELSE [prev EXCEPT !.readings = Append(@, RowReading(lines[n]))]

\* yesterday = datetime.now() - timedelta(days=1), as a date.
Yesterday(date) == IF date = <<2024, 1>> THEN <<2023, 365>> ELSE <<date[1], date[2] - 1>>

\* dt.strftime('%Y-%m-%d') of a reading's datetime.
DateOf(datetime) == <<datetime[1], datetime[2]>>

RECURSIVE Sum(_, _)
Sum(values, n) == IF n = 0 THEN 0 ELSE Sum(values, n - 1) + values[n]

\* round(sum(values) / len(values), ndigits) of measurements that are not
\* negative, counted in thousandths: the multiple of step (10 for two
\* digits, 1 for three) nearest to the quotient, the even multiple when the
\* quotient lies half way.
RoundedMean(values, step) ==
    LET total == Sum(values, Len(values))
        unit == Len(values) * step
        k == total \div unit
        rest == total - k * unit
    IN  IF 2 * rest < unit THEN k * step
        ELSE IF 2 * rest > unit THEN (k + 1) * step
        ELSE IF k % 2 = 0 THEN k * step
        ELSE (k + 1) * step

\* The values of one field over the readings that carry it.
RECURSIVE FieldValues(_, _, _)
FieldValues(rs, field, n) ==
    IF n = 0 THEN <<>>
    ELSE IF field \in DOMAIN rs[n]
         THEN Append(FieldValues(rs, field, n - 1), rs[n][field])
         ELSE FieldValues(rs, field, n - 1)

\* calculate_daily_average_for_yesterday.
calculate_daily_average_for_yesterday(hourly_readings, date) ==
    LET yesterday_readings ==
            SelectSeq(hourly_readings,
                      LAMBDA r : DateOf(r["datetime"]) = Yesterday(date))
        discharges == FieldValues(yesterday_readings, "discharge",
                                  Len(yesterday_readings))
        levels == FieldValues(yesterday_readings, "level", Len(yesterday_readings))
        daily_reading ==
            [f \in { k \in {"mean_discharge", "mean_level"} :
                        \/ k = "mean_discharge" /\ discharges # <<>>
                        \/ k = "mean_level" /\ levels # <<>> } |->
                IF f = "mean_discharge" THEN RoundedMean(discharges, 10)
                ELSE RoundedMean(levels, 1)]
    IN  IF yesterday_readings = <<>> \/ DOMAIN daily_reading = {} THEN <<>>
        ELSE [d \in {Yesterday(date)} |-> daily_reading]

\* current_data.get('hourly_readings_csv', '').
ReadingsCsv(doc) ==
    IF "hourly_readings_csv" \in DOMAIN doc THEN doc.hourly_readings_csv ELSE <<>>

\* daily_updater.process_existing_station: the status record returned and
\* the store it leaves.
process_existing_station(station_id, date, failure) ==
    LET unchanged == [metadata |-> metadata, readings |-> readings]
        Status(status) ==
            [result |-> [station_id |-> station_id, status |-> status],
             store |-> unchanged]
        current_doc == station_current[DocId(ProviderValue, station_id)]
        readings_csv == ReadingsCsv(current_doc)
        parsed == ParseCsv(Tail(readings_csv), Len(readings_csv) - 1)
        daily == calculate_daily_average_for_yesterday(parsed.readings, date)
        ops == ReadingsOps(station_id, organize_by_year(daily),
                           DOMAIN organize_by_year(daily))
        written == BatchWritten(ops, failure)
    IN  IF ~current_doc.exists THEN Status("no_cache")
        ELSE IF readings_csv = <<>> THEN Status("no_readings")
        ELSE IF parsed.raised THEN Status("error")
        ELSE IF parsed.readings = <<>> THEN Status("no_readings")
        ELSE IF DOMAIN daily = {} THEN Status("no_yesterday_data")
        ELSE IF ~written.ok THEN Status("error")
        ELSE [result |-> [station_id |-> station_id, status |-> "success",
                          date |-> Yesterday(date)],
              store |-> [metadata |-> written.metadata,
                         readings |-> written.readings]]

\* One iteration of "for station_id in sorted(new_stations)".
ProcessNewStation ==
    /\ rpc = "new"
    /\ \E fetched \in HistoricalFetches, failure \in BOOLEAN :
         LET r == process_new_station(Head(pending), fetched, failure)
         IN  /\ results' = Append(results, r.result)
             /\ metadata' = r.store.metadata
             /\ readings' = r.store.readings
    /\ IF Len(pending) > 1
       THEN /\ pending' = Tail(pending)
            /\ UNCHANGED rpc
       ELSE /\ pending' = Sorted(existing_stations)
            /\ rpc' = IF existing_stations # {} THEN "existing" ELSE "summary"
    /\ UNCHANGED <<station_docs, enum_format, today, ec_stations, new_stations,
                   existing_stations, summary, ingested, needing>>
    /\ UNCHANGED <<station_current, lastOp, repeated, priorKeys>>
    /\ UNCHANGED <<batchVars, fetchVars, jobVars>>

\* One iteration of "for station_id in sorted(existing_stations)".
ProcessExistingStation ==
    /\ rpc = "existing"
    /\ \E failure \in BOOLEAN :
         LET r == process_existing_station(Head(pending), today, failure)
         IN  /\ results' = Append(results, r.result)
             /\ metadata' = r.store.metadata
             /\ readings' = r.store.readings
    /\ pending' = Tail(pending)
    /\ rpc' = IF Len(pending) > 1 THEN "existing" ELSE "summary"
    /\ UNCHANGED <<station_docs, enum_format, today, ec_stations, new_stations,
                   existing_stations, summary, ingested, needing>>
    /\ UNCHANGED <<station_current, lastOp, repeated, priorKeys>>
    /\ UNCHANGED <<batchVars, fetchVars, jobVars>>

\* The stations of new_stations whose status record says success.
Backfilled(rs, new) ==
    { s \in new : \E i \in 1..Len(rs) :
                     rs[i].station_id = s /\ rs[i].status = "success" }

\* "Summary": the counts run_update returns.  The sets of the classification
\* stay as the record of the run until the next one begins.
RunUpdateSummary ==
    /\ rpc = "summary"
    /\ LET success == Cardinality({ i \in 1..Len(results) :
                                      results[i].status = "success" })
       IN  summary' = [success |-> success, failed |-> Len(results) - success]
    /\ ingested' = ingested \cup Backfilled(results, new_stations)
    /\ rpc' = "idle"
    /\ pending' = <<>>
    /\ results' = <<>>
    /\ UNCHANGED <<station_docs, enum_format, today, ec_stations, new_stations,
                   existing_stations, needing>>
    /\ UNCHANGED <<storeVars, batchVars, fetchVars, jobVars>>

\* The hourly_readings_csv texts of current-conditions documents written
\* before hourly_readings replaced the field: readings of two days with a
\* blank line between them, and a reading whose discharge was None.
CsvTwoDays ==
    <<CsvHeader,
      <<<<2024, 1, 22>>, "1", "">>,
      <<<<2024, 1, 23>>, "3", "1">>,
      <<"">>,
      <<<<2024, 2, 0>>, "2", "1">>>>

CsvNoneDischarge == <<CsvHeader, <<<<2024, 1, 23>>, "None", "1">>>>

LegacyCsvDoc(station_id, readings_csv) ==
    [exists |-> TRUE, station_id |-> station_id, provider |-> ProviderValue,
     latest_reading |-> [datetime |-> <<2024, 2, 0>>, discharge |-> Some(2),
                         level |-> Some(1)],
     trend |-> "stable", hourly_readings_csv |-> readings_csv,
     updated_at |-> "now"]

\* The current-conditions documents a run may find for a station: none, the
\* one the refresher writes, or one that carries the CSV text.
PriorCurrentDocs(station_id) ==
    { NoDoc,
      CurrentData(ProviderValue, station_id,
                  [datetime |-> <<2024, 2, 0>>, discharge |-> Some(2),
                   level |-> Some(1)],
                  "stable",
                  [t \in HourlyTimes |-> [discharge |-> Some(2), level |-> Some(1)]],
                  "now"),
      LegacyCsvDoc(station_id, CsvTwoDays),
      LegacyCsvDoc(station_id, CsvNoneDischarge) }

\* The dates on which a run takes place.
RunDates == {<<2024, 1>>, <<2024, 2>>}

\* Any prior store: station documents and metadata documents of any
\* stations, any current-conditions documents, under the ids of the enum
\* value; either interpreter.
InitDaily ==
    /\ BatchIdle /\ FetchIdle /\ JobIdle
    /\ lastOp = [type |-> "init"]
    /\ repeated = FALSE
    /\ priorKeys = {}
    /\ \E D \in SUBSET Stations, M \in SUBSET Stations :
          /\ station_docs = { DocId(ProviderValue, s) : s \in D }
          /\ metadata = [d \in DocIds |->
                            IF d[1] = ProviderValue /\ d[2] \in M
                            THEN MetadataDoc(CreateMetadataOp(ProviderValue, d[2]))
                            ELSE NoDoc]
    /\ readings = [k \in DocIds \X Years |-> NoDoc]
    /\ \E c \in [Stations -> UNION { PriorCurrentDocs(s) : s \in Stations }] :
          /\ \A s \in Stations : c[s] \in PriorCurrentDocs(s)
          /\ station_current = [d \in DocIds |->
                                   IF d[1] = ProviderValue THEN c[d[2]] ELSE NoDoc]
    /\ enum_format \in {"value", "name"}
    /\ today = <<2024, 2>>
    /\ rpc = "idle"
    /\ ec_stations = {}
    /\ new_stations = {}
    /\ existing_stations = {}
    /\ pending = <<>>
    /\ results = <<>>
    /\ summary = NoSummary
    /\ ingested = {}
    /\ needing = NotAsked

NextDaily ==
    \/ \E p \in Providers, all_station_ids \in SUBSET Stations :
          get_stations_needing_update(p, all_station_ids)
    \/ \E stations \in SUBSET Stations, date \in RunDates :
          RunUpdateStart(stations, date)
    \/ ProcessNewStation
    \/ ProcessExistingStation
    \/ RunUpdateSummary

SpecDaily == InitDaily /\ [][NextDaily]_vars

\* ------------------------------------------------------------------------
\* Properties of the reconciliation
\* ------------------------------------------------------------------------

\* C5: the new and existing sets get_stations_needing_update returns, and
\* the ones run_update classifies, cover the discovered stations and share
\* no station, whatever the store held.
C5_ReconciliationPartition ==
    /\ needing.new \cup needing.existing = needing.all
    /\ needing.new \cap needing.existing = {}
    /\ new_stations \cup existing_stations = ec_stations
    /\ new_stations \cap existing_stations = {}

\* A run has classified a discovered set into a new and an existing
\* station, and get_stations_needing_update has since returned an existing
\* station against a store that also knows a station outside the discovered
\* set.
C5_Witness ==
    /\ new_stations # {}
    /\ existing_stations # {}
    /\ needing.existing # {}
    /\ get_existing_stations(metadata, needing.provider) \ needing.all # {}

\* C6: a station that a finished run backfilled with success is classified
\* as existing, never as new, by every later run that discovers it.
C6_ExistingAfterFirstSuccess ==
    rpc # "idle" =>
        \A s \in ingested \cap ec_stations :
            s \in existing_stations /\ s \notin new_stations

\* ------------------------------------------------------------------------
\* daily_station_updater.py: the combined updater
\* ------------------------------------------------------------------------

\* --limit: absent, or the largest count the runs are given.
MaxLimit == 1

Limits == {None} \cup { Some(n) : n \in 1..MaxLimit }

\* The command lines of --dry-run, --force-historical and --limit.
ArgSets == [dry_run : BOOLEAN, force_historical : BOOLEAN, limit : Limits]

\* set(sorted(stations)[:args.limit]) under "if args.limit and args.limit > 0".
Limited(stations, limit) ==
    IF limit = None THEN stations
    ELSE { Sorted(stations)[i] :
             i \in 1..(IF Len(Sorted(stations)) < limit[1]
                       THEN Len(Sorted(stations)) ELSE limit[1]) }

\* get_station_info: the station's name, or None when the request or the
\* response fails.
StationInfos == {None, Some("STATION_NAME")}

\* "if not dry_run:", and the test left out.
WritesAlways(dry_run) == TRUE

Writes(dry_run) == ~dry_run

\* "except Exception as e: stats['error'] = str(e)" and the "return stats"
\* after it, and a function without the handler.
Uncaught(outcome) == outcome

Caught(outcome) ==
    IF outcome.raised
    THEN [outcome EXCEPT !.raised = FALSE, !.stats = ("error" :> "str(e)") @@ @]
    ELSE outcome

\* "for year, daily_readings in readings_by_year.items()": one
\* write_readings operation per year under the provider given.
RECURSIVE WriteOps(_, _, _, _)
WriteOps(provider, station_id, by_year, years) ==
    IF years = {} THEN <<>>
    ELSE LET y == CHOOSE x \in years : \A z \in years : x <= z
         IN  <<WriteReadingsOp(provider, station_id, y, by_year[y])>>
                 \o WriteOps(provider, station_id, by_year, years \ {y})

\* batch_write_station_data on a list shorter than max_batch_size, against
\* the store st: one commit, which applies every write or none; and a
\* writer whose failed commit keeps its first write.
BatchWrittenPartly(st, ops, failure) ==
    LET r == Applied(st.metadata, st.readings, ops, Len(ops))
        first == Applied(st.metadata, st.readings, ops, 1)
    IN  IF ops = <<>> THEN [ok |-> TRUE, metadata |-> st.metadata,
                            readings |-> st.readings]
        ELSE IF failure \/ ~r.ok
        THEN [ok |-> FALSE, metadata |-> first.metadata,
              readings |-> first.readings]
        ELSE r

BatchWrittenOn(st, ops, failure) ==
    LET r == Applied(st.metadata, st.readings, ops, Len(ops))
    IN  IF ops = <<>> THEN [ok |-> TRUE, metadata |-> st.metadata,
                            readings |-> st.readings]
        ELSE IF failure \/ ~r.ok
        THEN [ok |-> FALSE, metadata |-> st.metadata, readings |-> st.readings]
        ELSE r

\* daily_station_updater.process_new_station: the stats returned, the store
\* it leaves and the store calls it made.
updater_process_new_station(station_id, station_info, fetched, failure, dry_run) ==
    LET started == [station_id |-> station_id, status |-> "failed",
                  readings_fetched |-> 0, years_written |-> 0]
        store == [metadata |-> metadata, readings |-> readings]
        provider == FormatEnum(enum_format)
        station_name == IF station_info = None THEN "Station" ELSE station_info[1]
        readings_by_year == organize_by_year(fetched.readings)
        counted == [started EXCEPT
                      !.readings_fetched = Cardinality(DOMAIN fetched.readings)]
        organized == [counted EXCEPT
                        !.years_written = Cardinality(DOMAIN readings_by_year)]
        ops == <<[CreateMetadataOp(provider, station_id) EXCEPT
                    !.station_name = station_name]>>
                 \o WriteOps(provider, station_id, readings_by_year,
                             DOMAIN readings_by_year)
        written == BatchWrittenOn(store, ops, failure)
        body ==
            IF fetched.raised
            THEN [raised |-> TRUE, stats |-> started, store |-> store, calls |-> 0]
            ELSE IF DOMAIN fetched.readings = {}
            THEN [raised |-> FALSE, stats |-> counted, store |-> store, calls |-> 0]
            ELSE IF ~Writes(dry_run)
            THEN [raised |-> FALSE, stats |-> [organized EXCEPT !.status = "success"],
                  store |-> store, calls |-> 0]
            ELSE IF ~written.ok
            THEN [raised |-> TRUE, stats |-> organized,
                  store |-> [metadata |-> written.metadata,
                             readings |-> written.readings],
                  calls |-> 1]
            ELSE [raised |-> FALSE, stats |-> [organized EXCEPT !.status = "success"],
                  store |-> [metadata |-> written.metadata,
                             readings |-> written.readings],
                  calls |-> 1]
    IN  Caught(body)

\* The values of one field over the samples of the times T, None left out;
\* and a selection that takes None for 0.
RECURSIVE SampleValuesOrZero(_, _, _)
SampleValuesOrZero(hourly, T, field) ==
    IF T = {} THEN <<>>
    ELSE LET t == CHOOSE x \in T : TRUE
         IN  (IF hourly[t][field] = None THEN <<0>> ELSE <<hourly[t][field][1]>>)
                 \o SampleValuesOrZero(hourly, T \ {t}, field)

RECURSIVE SampleValues(_, _, _)
SampleValues(hourly, T, field) ==
    IF T = {} THEN <<>>
    ELSE LET t == CHOOSE x \in T : TRUE
         IN  (IF hourly[t][field] = None THEN <<>> ELSE <<hourly[t][field][1]>>)
                 \o SampleValues(hourly, T \ {t}, field)

\* calculate_daily_averages_from_realtime over the samples of the cached
\* window: one aggregate per date that has a measurement; and an aggregator
\* without "if daily_reading:", which keeps the empty aggregates.
AggregateEveryDate(hourly) ==
    LET day(date) == { t \in DOMAIN hourly : DateOf(t) = date }
        discharges(date) == SampleValues(hourly, day(date), "discharge")
        levels(date) == SampleValues(hourly, day(date), "level")
        daily_reading(date) ==
            [f \in { k \in {"mean_discharge", "mean_level"} :
                        \/ k = "mean_discharge" /\ discharges(date) # <<>>
                        \/ k = "mean_level" /\ levels(date) # <<>> } |->
                IF f = "mean_discharge" THEN RoundedMean(discharges(date), 10)
                ELSE RoundedMean(levels(date), 1)]
    IN  [date \in { DateOf(t) : t \in DOMAIN hourly } |-> daily_reading(date)]

calculate_daily_averages_from_realtime(hourly) ==
    LET day(date) == { t \in DOMAIN hourly : DateOf(t) = date }
        discharges(date) == SampleValues(hourly, day(date), "discharge")
        levels(date) == SampleValues(hourly, day(date), "level")
        daily_reading(date) ==
            [f \in { k \in {"mean_discharge", "mean_level"} :
                        \/ k = "mean_discharge" /\ discharges(date) # <<>>
                        \/ k = "mean_level" /\ levels(date) # <<>> } |->
                IF f = "mean_discharge" THEN RoundedMean(discharges(date), 10)
                ELSE RoundedMean(levels(date), 1)]
    IN  [date \in { d \in { DateOf(t) : t \in DOMAIN hourly } :
                       DOMAIN daily_reading(d) # {} } |-> daily_reading(date)]

\* current_data.get('hourly_readings', {}).
HourlyReadings(doc) ==
    IF "hourly_readings" \in DOMAIN doc THEN doc.hourly_readings ELSE <<>>

\* daily_station_updater.process_existing_station: the forced historical
\* refetch, then the daily averages of the cached window.
updater_process_existing_station(station_id, fetched, failure, cache_failure, dry_run, force_historical) ==
    LET started == [station_id |-> station_id, status |-> "failed",
                  daily_reading_calculated |-> FALSE]
        store == [metadata |-> metadata, readings |-> readings]
        provider == FormatEnum(enum_format)
        readings_by_year == organize_by_year(fetched.readings)
        counted == ("readings_fetched" :> Cardinality(DOMAIN fetched.readings))
                       @@ started
        organized == ("years_updated" :> Cardinality(DOMAIN readings_by_year))
                         @@ counted
        force_ops == WriteOps(provider, station_id, readings_by_year,
                              DOMAIN readings_by_year)
                       \o <<UpdateMetadataOp(provider, station_id)>>
        force_written == BatchWrittenOn(store, force_ops, failure)
        forced ==
            IF ~force_historical
            THEN [raised |-> FALSE, stats |-> started, store |-> store, calls |-> 0]
            ELSE IF fetched.raised
            THEN [raised |-> TRUE, stats |-> started, store |-> store, calls |-> 0]
            ELSE IF DOMAIN fetched.readings = {}
            THEN [raised |-> FALSE, stats |-> counted, store |-> store, calls |-> 0]
            ELSE IF ~Writes(dry_run)
            THEN [raised |-> FALSE, stats |-> organized, store |-> store, calls |-> 0]
            ELSE IF ~force_written.ok
            THEN [raised |-> TRUE, stats |-> organized, store |-> store, calls |-> 1]
            ELSE [raised |-> FALSE, stats |-> organized,
                  store |-> [metadata |-> force_written.metadata,
                             readings |-> force_written.readings],
                  calls |-> 1]
        current_doc == station_current[DocId(provider, station_id)]
        hourly_readings_dict == HourlyReadings(current_doc)
        daily_readings == calculate_daily_averages_from_realtime(hourly_readings_dict)
        calculated == ("daily_reading_calculated" :> TRUE) @@ forced.stats
        Success(st) == ("status" :> "success") @@ st
        ops == WriteOps(provider, station_id, organize_by_year(daily_readings),
                        DOMAIN organize_by_year(daily_readings))
        written == BatchWrittenOn(forced.store, ops, cache_failure)
        body ==
            IF forced.raised THEN forced
            ELSE IF ~current_doc.exists \/ DOMAIN hourly_readings_dict = {}
            THEN [forced EXCEPT !.stats = Success(forced.stats)]
            ELSE IF DOMAIN daily_readings = {}
            THEN [forced EXCEPT !.stats = Success(forced.stats)]
            ELSE IF ~Writes(dry_run)
            THEN [forced EXCEPT !.stats = Success(calculated)]
            ELSE IF ~written.ok
            THEN [forced EXCEPT !.raised = TRUE, !.stats = calculated,
                                !.calls = @ + 1]
            ELSE [raised |-> FALSE, stats |-> Success(calculated),
                  store |-> [metadata |-> written.metadata,
                             readings |-> written.readings],
                  calls |-> forced.calls + 1]
    IN  Caught(body)

\* main up to the first station: the discovery from river_runs, the early
\* return without stations, get_stations_needing_update and --limit.
MainStart(stations, a) ==
    /\ mpc = "idle"
    /\ rpc = "idle"
    /\ args' = a
    /\ ec_stations' = stations
    /\ new_stats' = <<>>
    /\ existing_stats' = <<>>
    /\ mutations' = 0
    /\ LET provider == FormatEnum(enum_format)
           existing == get_existing_stations(metadata, provider)
       IN  IF stations = {}
           THEN /\ new_stations' = {}
                /\ existing_stations' = {}
                /\ needing' = NotAsked
           ELSE /\ new_stations' = Limited(NewOf(stations, existing), a.limit)
                /\ existing_stations' =
                       Limited(ExistingOf(stations, existing), a.limit)
                /\ needing' = [provider |-> provider, all |-> stations,
                               new |-> NewOf(stations, existing),
                               existing |-> ExistingOf(stations, existing)]
    /\ mpc' = IF stations = {} THEN "idle"
              ELSE PhaseAfterStart(new_stations', existing_stations')
    /\ pending' = IF new_stations' # {} THEN Sorted(new_stations')
                  ELSE Sorted(existing_stations')
    /\ UNCHANGED <<station_docs, enum_format, today, rpc, results, summary, ingested>>
    /\ UNCHANGED <<storeVars, batchVars, fetchVars, refreshVars, pureVars>>

\* One iteration of "for station_id in sorted(new_stations)"; an exception
\* that left process_new_station would reach main's handler and sys.exit(1).
MainNewStation ==
    /\ mpc = "new"
    /\ \E station_info \in StationInfos, fetched \in HistoricalFetches,
          failure \in BOOLEAN :
         LET r == updater_process_new_station(Head(pending), station_info,
                                              fetched, failure, args.dry_run)
         IN  /\ metadata' = r.store.metadata
             /\ readings' = r.store.readings
             /\ mutations' = mutations + r.calls
             /\ new_stats' = IF r.raised THEN new_stats
                             ELSE Append(new_stats, r.stats)
             /\ mpc' = IF r.raised THEN "exit"
                       ELSE IF Len(pending) > 1 THEN "new"
                       ELSE IF existing_stations # {} THEN "existing"
                       ELSE "summary"
    /\ pending' = IF Len(pending) > 1 THEN Tail(pending)
                  ELSE Sorted(existing_stations)
    /\ UNCHANGED <<args, existing_stats>>
    /\ UNCHANGED <<station_current, lastOp, repeated, priorKeys>>
    /\ UNCHANGED <<station_docs, enum_format, today, rpc, ec_stations,
                   new_stations, existing_stations, results, summary, ingested,
                   needing>>
    /\ UNCHANGED <<batchVars, fetchVars, refreshVars, pureVars>>

\* One iteration of "for station_id in sorted(existing_stations)".
MainExistingStation ==
    /\ mpc = "existing"
    /\ \E fetched \in HistoricalFetches, failure \in BOOLEAN,
          cache_failure \in BOOLEAN :
         LET r == updater_process_existing_station(
                      Head(pending), fetched, failure, cache_failure,
                      args.dry_run, args.force_historical)
         IN  /\ metadata' = r.store.metadata
             /\ readings' = r.store.readings
             /\ mutations' = mutations + r.calls
             /\ existing_stats' = IF r.raised THEN existing_stats
                                  ELSE Append(existing_stats, r.stats)
             /\ mpc' = IF r.raised THEN "exit"
                       ELSE IF Len(pending) > 1 THEN "existing"
                       ELSE "summary"
    /\ pending' = Tail(pending)
    /\ UNCHANGED <<args, new_stats>>
    /\ UNCHANGED <<station_current, lastOp, repeated, priorKeys>>
    /\ UNCHANGED <<station_docs, enum_format, today, rpc, ec_stations,
                   new_stations, existing_stations, results, summary, ingested,
                   needing>>
    /\ UNCHANGED <<batchVars, fetchVars, refreshVars, pureVars>>

\* The number of stats records whose status is success.
Successes(all_stats) ==
    Cardinality({ i \in 1..Len(all_stats) : all_stats[i].status = "success" })

\* "Print summary": the counts main logs.
Report(new, existing) ==
    [new_success |-> Successes(new),
     new_failed |-> Len(new) - Successes(new),
     existing_success |-> Successes(existing),
     existing_failed |-> Len(existing) - Successes(existing)]

\* main logs the summary and returns.
MainSummary ==
    /\ mpc = "summary"
    /\ mpc' = "idle"
    /\ args' = NoArgs
    /\ new_stats' = <<>>
    /\ existing_stats' = <<>>
    /\ mutations' = 0
    /\ pending' = <<>>
    /\ UNCHANGED <<station_docs, enum_format, today, rpc, ec_stations,
                   new_stations, existing_stations, results, summary, ingested,
                   needing>>
    /\ UNCHANGED <<storeVars, batchVars, fetchVars, refreshVars, pureVars>>

\* The current-conditions documents the second station may hold: none or
\* the one the refresher writes.
RefreshedCurrentDocs(station_id) ==
    { d \in PriorCurrentDocs(station_id) : "hourly_readings_csv" \notin DOMAIN d }

\* What firestore.SERVER_TIMESTAMP resolved to in a document an earlier run
\* committed: a time before every commit of the run followed.
EARLIER_TIMESTAMP == "EARLIER_TIMESTAMP"

\* The stores a run of one of the two daily orchestrators may find: station
\* and metadata documents of any stations, left by earlier runs, no year
\* document yet, any current-conditions documents, under the ids the
\* interpreter formats; either interpreter.
InitUpdaters ==
    /\ BatchIdle /\ FetchIdle /\ JobIdle
    /\ lastOp = [type |-> "init"]
    /\ repeated = FALSE
    /\ priorKeys = {}
    /\ enum_format \in {"value", "name"}
    /\ \E K \in SUBSET Stations :
          /\ station_docs = { DocId(FormatEnum(enum_format), s) : s \in K }
          /\ metadata = [d \in DocIds |->
                            IF d[1] = FormatEnum(enum_format) /\ d[2] \in K
                            THEN [MetadataDoc(CreateMetadataOp(d[1], d[2])) EXCEPT
                                    !.first_data_fetch = EARLIER_TIMESTAMP,
                                    !.last_updated = EARLIER_TIMESTAMP,
                                    !.created_at = EARLIER_TIMESTAMP]
                            ELSE NoDoc]
    /\ readings = [k \in DocIds \X Years |-> NoDoc]
    /\ \E c1 \in PriorCurrentDocs("08GA072"), c2 \in RefreshedCurrentDocs("08NM116") :
          station_current = [d \in DocIds |->
                                IF d[1] # FormatEnum(enum_format) THEN NoDoc
                                ELSE IF d[2] = "08GA072" THEN c1 ELSE c2]
    /\ today = <<2024, 2>>
    /\ rpc = "idle"
    /\ ec_stations = {}
    /\ new_stations = {}
    /\ existing_stations = {}
    /\ pending = <<>>
    /\ results = <<>>
    /\ summary = NoSummary
    /\ ingested = {}
    /\ needing = NotAsked

\* No run has discovered a station yet: the specification follows one run
\* of either orchestrator from each store.
FirstRun == ec_stations = {}

NextUpdaters ==
    \/ \E stations \in SUBSET Stations, date \in RunDates :
          FirstRun /\ RunUpdateStart(stations, date)
    \/ ProcessNewStation
    \/ ProcessExistingStation
    \/ RunUpdateSummary
    \/ \E stations \in SUBSET Stations, a \in ArgSets :
          FirstRun /\ MainStart(stations, a)
    \/ MainNewStation
    \/ MainExistingStation
    \/ MainSummary

SpecUpdaters == InitUpdaters /\ [][NextUpdaters]_vars

\* ------------------------------------------------------------------------
\* Properties of the sequential daily orchestrators
\* ------------------------------------------------------------------------

\* The station ids of a list of status records, in order.
StationIds(records) == [i \in 1..Len(records) |-> records[i].station_id]

\* The stations the loops of a run have yet to reach, pc being rpc or mpc.
Remaining(pc) ==
    IF pc = "new" THEN pending \o Sorted(existing_stations)
    ELSE IF pc = "existing" THEN pending
    ELSE <<>>

\* C11: no exception of a station's fetch, aggregation or write leaves
\* process_new_station or process_existing_station, in daily_updater and in
\* daily_station_updater alike: the run never ends in main's handler, the
\* records collected so far and the stations still to come are at every
\* point the sorted new stations followed by the sorted existing ones, and
\* so the summary is reached with exactly one status record per station of
\* new and existing, each carrying a status.
C11_FailureIsolation ==
    /\ mpc # "exit"
    /\ rpc # "idle" =>
          /\ StationIds(results) \o Remaining(rpc)
                = Sorted(new_stations) \o Sorted(existing_stations)
          /\ \A i \in 1..Len(results) : "status" \in DOMAIN results[i]
    /\ mpc # "idle" =>
          /\ StationIds(new_stats \o existing_stats) \o Remaining(mpc)
                = Sorted(new_stations) \o Sorted(existing_stations)
          /\ \A i \in 1..Len(new_stats) : "status" \in DOMAIN new_stats[i]
          /\ \A i \in 1..Len(existing_stats) :
                "status" \in DOMAIN existing_stats[i]

\* main has reached the summary of a live run over two stations: the fetch
\* of a new station raised, the commit of an existing station's readings
\* raised, and both left a stats record.
C11_Witness ==
    /\ mpc = "summary"
    /\ ~args.dry_run
    /\ Len(new_stats) = 1
    /\ Len(existing_stats) = 1
    /\ "error" \in DOMAIN new_stats[1]
    /\ new_stats[1].readings_fetched = 0
    /\ "error" \in DOMAIN existing_stats[1]
    /\ existing_stats[1].daily_reading_calculated

\* ------------------------------------------------------------------------
\* The realtime refreshers: realtime_updater.run_update and
\* daily_realtime_updater.async_main
\* ------------------------------------------------------------------------

\* A reading dict of RealtimeDataService._parse_response; measurements count
\* thousandths (of a metre, of a cubic metre per second).
Reading(station_id, datetime, discharge, level) ==
    [datetime |-> datetime, discharge |-> discharge, level |-> level,
     station_name |-> "STATION_NAME", station_number |-> station_id]

\* What one fetch_latest_readings call may return, most recent reading
\* first: nothing, one reading, two readings a day apart with a rising level.
Windows(station_id) ==
    { <<>>,
      <<Reading(station_id, <<2024, 2, 0>>, Some(2), Some(1000))>>,
      <<Reading(station_id, <<2024, 2, 0>>, Some(2), Some(1100)),
        Reading(station_id, <<2024, 1, 23>>, Some(1), Some(1000))>> }

\* The result of awaiting fetch_latest_readings: the exception
\* _fetch_date_range raises once its retries are used up, or the readings.
Fetches(station_id) ==
    { [raised |-> TRUE, readings |-> <<>>] }
        \cup { [raised |-> FALSE, readings |-> w] : w \in Windows(station_id) }

\* The 0.05 m of the trend comparison, in thousandths of a metre.
TrendThreshold == 50

\* "if r.get('level')"; and "if r.get('level') is not None".
NotNone(level) == level # None

Truthy(level) == level # None /\ level[1] # 0

\* recent_levels = [r['level'] for r in readings[:7] if r.get('level')].
RecentLevels(window) ==
    LET first == SubSeq(window, 1, IF Len(window) < 7 THEN Len(window) ELSE 7)
        kept == SelectSeq(first, LAMBDA r : Truthy(r.level))
    IN  [i \in 1..Len(kept) |-> kept[i].level[1]]

\* "Calculate trend if we have multiple readings".
TrendOf(window) ==
    LET recent_levels == RecentLevels(window)
    IN  IF Len(window) >= 2 /\ Len(recent_levels) >= 2
        THEN IF recent_levels[1] > recent_levels[Len(recent_levels)] + TrendThreshold
             THEN "rising"
             ELSE IF recent_levels[1] < recent_levels[Len(recent_levels)] - TrendThreshold
             THEN "falling"
             ELSE "stable"
        ELSE "stable"

\* RealtimeDataService.get_station_status(self, station_id) on the readings
\* its fetch_latest_readings(station_id, hours=48) returned.
get_station_status(station_id, window) ==
    IF window = <<>>
    THEN [station_id |-> station_id, status |-> "no_data",
          latest_reading |-> None, data_age_hours |-> None, trend |-> None]
    ELSE [station_id |-> station_id, status |-> "active",
          latest_reading |-> window[1], data_age_hours |-> "data_age",
          trend |-> TrendOf(window), readings_48h |-> Len(window)]

\* The parameters get_station_status accepts besides self; a call that
\* names another keyword raises TypeError before the coroutine starts.
StatusParameters == {"station_id"}

CallRaises(keywords) == ~(keywords \subseteq StatusParameters)

\* readings_dict = {r['datetime']: r for r in readings}.
ReadingsDict(window) ==
    [t \in { window[i].datetime : i \in 1..Len(window) } |->
        LET i == CHOOSE j \in 1..Len(window) :
                    /\ window[j].datetime = t
                    /\ \A k \in 1..Len(window) :
                          window[k].datetime = t => k <= j
        IN  window[i]]

\* readings_dict[dt_key] = {'discharge': ..., 'level': ...}.
SamplesDict(window) ==
    [t \in DOMAIN ReadingsDict(window) |->
        [discharge |-> ReadingsDict(window)[t].discharge,
         level |-> ReadingsDict(window)[t].level]]

\* "except Exception as e" of process_station: the error record returned.
ProcessStationExcept(task, outcome) ==
    IF outcome.raised
    THEN [outcome EXCEPT
            !.raised = FALSE,
            !.task = [outcome.task EXCEPT
                        !.pc = "done",
                        !.stats = [station_id |-> task.station_id,
                                   status |-> "error", error |-> "str(e)"]]]
    ELSE outcome

\* realtime_updater.process_station from one await to the next: the task
\* resumes with the result of the call it awaited.
process_station(task, fetched, failure) ==
    LET station_id == task.station_id
        doc_id == DocId(FormatEnum(enum_format), station_id)
        Raised == [raised |-> TRUE, task |-> task,
                   current |-> station_current, calls |-> 0]
        Returned(record) ==
            [raised |-> FALSE, current |-> station_current, calls |-> 0,
             task |-> [task EXCEPT !.pc = "done", !.stats = record]]
        status == get_station_status(station_id, fetched.readings)
        data == CurrentData(StoredProvider(FormatEnum(enum_format)), station_id,
                            status.latest_reading, status.trend,
                            ReadingsDict(task.readings), "now")
        body ==
            IF task.pc = "fetch_latest_readings"
            THEN IF fetched.raised THEN Raised
                 ELSE IF fetched.readings = <<>>
                 THEN Returned([station_id |-> station_id, status |-> "no_data",
                                readings |-> 0])
                 ELSE IF CallRaises({"station_id", "hours"})
                 THEN [Raised EXCEPT !.task.readings = fetched.readings]
                 ELSE [raised |-> FALSE, current |-> station_current, calls |-> 0,
                       task |-> [task EXCEPT !.pc = "get_station_status",
                                             !.readings = fetched.readings]]
            ELSE IF fetched.raised THEN Raised
            ELSE IF failure THEN [Raised EXCEPT !.calls = 1]
            ELSE [raised |-> FALSE,
                  current |-> [station_current EXCEPT
                                 ![doc_id] = set_current(@, data)],
                  calls |-> 1,
                  task |-> [task EXCEPT
                              !.pc = "done",
                              !.stats = [station_id |-> station_id,
                                         status |-> "success",
                                         readings |-> Len(task.readings)]]]
    IN  ProcessStationExcept(task, body)

\* current_data of update_station_realtime.
RealtimeCurrentData(station_id, status, all_readings) ==
    [exists |-> TRUE,
     station_id |-> station_id,
     provider |-> StoredProvider(FormatEnum(enum_format)),
     station_name |-> status.latest_reading.station_name,
     latest_reading |-> [datetime |-> status.latest_reading.datetime,
                         discharge |-> status.latest_reading.discharge,
                         level |-> status.latest_reading.level],
     trend |-> status.trend,
     data_age_hours |-> status.data_age_hours,
     hourly_readings |-> SamplesDict(all_readings),
     readings_count |-> Cardinality(DOMAIN SamplesDict(all_readings)),
     updated_at |-> SERVER_TIMESTAMP]

\* "except Exception as e: stats['error'] = str(e)" of
\* update_station_realtime and the "return stats" after it, and a coroutine
\* without the handler.
UpdateStationRaises(task, outcome) == outcome

UpdateStationExcept(task, outcome) ==
    IF outcome.raised
    THEN [outcome EXCEPT
            !.raised = FALSE,
            !.task = [outcome.task EXCEPT
                        !.pc = "done",
                        !.stats = ("error" :> outcome.error) @@ @]]
    ELSE outcome

\* daily_realtime_updater.update_station_realtime from one await to the
\* next.
update_station_realtime(task, fetched, failure, dry_run) ==
    LET station_id == task.station_id
        doc_id == DocId(FormatEnum(enum_format), station_id)
        Raised(t, e, n) == [raised |-> TRUE, task |-> t, error |-> e,
                            current |-> station_current, calls |-> n]
        status == get_station_status(station_id, fetched.readings)
        filled == ("trend" :> status.trend)
                      @@ ("data_age_hours" :> status.data_age_hours)
                      @@ [task.stats EXCEPT
                            !.readings_fetched = status.readings_48h,
                            !.latest_reading = status.latest_reading]
        body ==
            IF task.pc = "get_station_status"
            THEN IF fetched.raised THEN Raised(task, "ClientError", 0)
                 ELSE IF status.status = "no_data"
                 THEN [raised |-> FALSE, current |-> station_current, calls |-> 0,
                       task |-> [task EXCEPT !.pc = "done"]]
                 ELSE IF ~Writes(dry_run)
                 THEN [raised |-> FALSE, current |-> station_current, calls |-> 0,
                       task |-> [task EXCEPT
                                   !.pc = "done",
                                   !.stats = ("status" :> "success") @@ filled]]
                 ELSE [raised |-> FALSE, current |-> station_current, calls |-> 0,
                       task |-> [task EXCEPT !.pc = "fetch_latest_readings",
                                             !.status = status,
                                             !.stats = filled]]
            ELSE IF fetched.raised THEN Raised(task, "ClientError", 0)
            ELSE IF failure THEN Raised(task, "GoogleAPIError", 1)
            ELSE [raised |-> FALSE,
                  current |-> [station_current EXCEPT
                                 ![doc_id] =
                                     set_current(@, RealtimeCurrentData(
                                         station_id, task.status, fetched.readings))],
                  calls |-> 1,
                  task |-> [task EXCEPT
                              !.pc = "done",
                              !.all_readings = fetched.readings,
                              !.stats = ("status" :> "success") @@ @]]
    IN  UpdateStationExcept(task, body)

\* The coroutine objects the runs create: process_station(station_id, ...)
\* and update_station_realtime(station_id, ...), not yet started.
NewTask(program, station_id) ==
    IF program = "realtime_updater"
    THEN [station_id |-> station_id, pc |-> "fetch_latest_readings",
          readings |-> <<>>, stats |-> <<>>]
    ELSE [station_id |-> station_id, pc |-> "get_station_status",
          status |-> None, all_readings |-> <<>>,
          stats |-> [station_id |-> station_id, status |-> "failed",
                     readings_fetched |-> 0, latest_reading |-> None]]

\* The refreshers.
Refreshers == {"realtime_updater", "daily_realtime_updater"}

\* run_update and async_main up to asyncio.gather: the discovery, the early
\* return of async_main without stations, --limit, one task per station.
\* run_update takes no arguments.
RefreshStart(program, stations, a) ==
    /\ upc = "idle"
    /\ mpc = "idle"
    /\ rpc = "idle"
    /\ program = "realtime_updater" => a = NoArgs
    /\ refresher' = program
    /\ args' = a
    /\ ec_stations' = stations
    /\ mutations' = 0
    /\ LET stations_to_process ==
               IF program = "realtime_updater" THEN stations
               ELSE Limited(stations, a.limit)
       IN  /\ tasks' = [s \in stations_to_process |-> NewTask(program, s)]
           /\ twin' = [s \in stations_to_process |-> None]
    /\ upc' = IF program = "daily_realtime_updater" /\ stations = {}
              THEN "idle" ELSE "gather"
    /\ UNCHANGED <<mpc, new_stats, existing_stats>>
    /\ UNCHANGED <<station_docs, enum_format, today, rpc, new_stations,
                   existing_stations, pending, results, summary, ingested,
                   needing>>
    /\ UNCHANGED <<storeVars, batchVars, fetchVars, pureVars>>

\* A task of run_update resumes; an exception that left it would leave
\* asyncio.gather and run_update.
ProcessStationStep(s) ==
    /\ upc = "gather"
    /\ refresher = "realtime_updater"
    /\ s \in DOMAIN tasks
    /\ tasks[s].pc # "done"
    /\ \E fetched \in Fetches(s), failure \in BOOLEAN :
         LET r == process_station(tasks[s], fetched, failure)
         IN  /\ tasks' = [tasks EXCEPT ![s] = r.task]
             /\ station_current' = r.current
             /\ mutations' = mutations + r.calls
             /\ upc' = IF r.raised THEN "raised" ELSE upc
    /\ UNCHANGED <<refresher, twin, args, mpc, new_stats, existing_stats>>
    /\ UNCHANGED <<metadata, readings, lastOp, repeated, priorKeys>>
    /\ UNCHANGED <<batchVars, fetchVars, dailyVars, pureVars>>

\* A task of async_main resumes.  The stats of the same station under
\* --dry-run are settled by the first fetch, the only one a dry run makes.
UpdateStationStep(s) ==
    /\ upc = "gather"
    /\ refresher = "daily_realtime_updater"
    /\ s \in DOMAIN tasks
    /\ tasks[s].pc # "done"
    /\ \E fetched \in Fetches(s), failure \in BOOLEAN :
         LET r == update_station_realtime(tasks[s], fetched, failure, args.dry_run)
         IN  /\ tasks' = [tasks EXCEPT ![s] = r.task]
             /\ station_current' = r.current
             /\ mutations' = mutations + r.calls
             /\ upc' = IF r.raised THEN "raised" ELSE upc
             /\ twin' = IF tasks[s].pc = "get_station_status"
                        THEN [twin EXCEPT ![s] =
                                update_station_realtime(tasks[s], fetched,
                                                        failure, TRUE).task.stats]
                        ELSE twin
    /\ UNCHANGED <<refresher, args, mpc, new_stats, existing_stats>>
    /\ UNCHANGED <<metadata, readings, lastOp, repeated, priorKeys>>
    /\ UNCHANGED <<batchVars, fetchVars, dailyVars, pureVars>>

\* Every task handed to asyncio.gather has returned.
Gathered == \A s \in DOMAIN tasks : tasks[s].pc = "done"

\* results / all_stats: the values gather returns, in the order of the tasks.
AllStats == [i \in 1..Len(Sorted(DOMAIN tasks)) |-> tasks[Sorted(DOMAIN tasks)[i]].stats]

\* "Summary": success and failed as both refreshers count them.
RefreshSummary(all_stats) ==
    [success |-> Successes(all_stats),
     failed |-> Len(all_stats) - Successes(all_stats)]

\* asyncio.gather returns, the run logs its summary and ends.
RefreshEnd ==
    /\ upc = "gather"
    /\ Gathered
    /\ upc' = "idle"
    /\ tasks' = <<>>
    /\ twin' = <<>>
    /\ args' = NoArgs
    /\ mutations' = 0
    /\ ec_stations' = {}
    /\ UNCHANGED <<refresher, mpc, new_stats, existing_stats>>
    /\ UNCHANGED <<station_docs, enum_format, today, rpc, new_stations,
                   existing_stations, pending, results, summary, ingested,
                   needing>>
    /\ UNCHANGED <<storeVars, batchVars, fetchVars, pureVars>>

\* An empty store; either interpreter.
InitRefresh ==
    /\ StoreEmpty /\ BatchIdle /\ FetchIdle /\ JobIdle
    /\ station_docs = {}
    /\ enum_format \in {"value", "name"}
    /\ today = <<2024, 2>>
    /\ rpc = "idle"
    /\ ec_stations = {}
    /\ new_stations = {}
    /\ existing_stations = {}
    /\ pending = <<>>
    /\ results = <<>>
    /\ summary = NoSummary
    /\ ingested = {}
    /\ needing = NotAsked

NextRefresh ==
    \/ \E program \in Refreshers, stations \in SUBSET Stations, a \in ArgSets \cup {NoArgs} :
          RefreshStart(program, stations, a)
    \/ \E s \in Stations : ProcessStationStep(s)
    \/ \E s \in Stations : UpdateStationStep(s)
    \/ RefreshEnd

SpecRefresh == InitRefresh /\ [][NextRefresh]_vars

\* ------------------------------------------------------------------------
\* Properties of the realtime refreshers
\* ------------------------------------------------------------------------

\* C12: the tasks of a refresher run are isolated.  No failure of a task
\* leaves asyncio.gather, a step of one task leaves every other task as it
\* was, the run holds one task per discovered station (per station kept by
\* --limit) and gather returns one outcome for each, and a station whose
\* task ends with success in a live run holds the document that task wrote,
\* however the tasks interleave.
C12_TaskIsolation ==
    /\ [](/\ upc # "raised"
          /\ upc = "gather" =>
                /\ DOMAIN tasks = Limited(ec_stations, args.limit)
                /\ Gathered =>
                      /\ Len(AllStats) = Cardinality(DOMAIN tasks)
                      /\ \A i \in 1..Len(AllStats) :
                            "status" \in DOMAIN AllStats[i]
                /\ \A s \in DOMAIN tasks :
                      (/\ refresher = "daily_realtime_updater"
                       /\ ~args.dry_run
                       /\ tasks[s].pc = "done"
                       /\ tasks[s].stats.status = "success")
                      => station_current[DocId(FormatEnum(enum_format), s)]
                            = RealtimeCurrentData(s, tasks[s].status,
                                                  tasks[s].all_readings))
    /\ [][upc = "gather" /\ upc' = "gather" =>
            \A s, t \in DOMAIN tasks :
                (s # t /\ tasks'[s] # tasks[s]) => tasks'[t] = tasks[t]]_vars

\* In a live run of async_main over two stations the first request of one
\* task raised after the other task had begun, and the other task went on to
\* write its document and to return success.
C12_Witness ==
    /\ upc = "gather"
    /\ refresher = "daily_realtime_updater"
    /\ ~args.dry_run
    /\ DOMAIN tasks = Stations
    /\ Gathered
    /\ "error" \in DOMAIN tasks["08GA072"].stats
    /\ tasks["08NM116"].stats.status = "success"
    /\ station_current[DocId(FormatEnum(enum_format), "08NM116")].exists
    /\ ~station_current[DocId(FormatEnum(enum_format), "08GA072")].exists

\* C13: in a run of realtime_updater, a station whose hourly fetch returned
\* at least one reading, none of its requests failing, ends with the status
\* success and with its current-conditions document holding the fetched
\* window.
C13_RefresherEffect ==
    (upc = "gather" /\ refresher = "realtime_updater") =>
        \A s \in DOMAIN tasks :
            (tasks[s].pc = "done" /\ tasks[s].readings # <<>>) =>
                /\ tasks[s].stats.status = "success"
                /\ station_current[DocId(FormatEnum(enum_format), s)].exists
                /\ station_current[DocId(FormatEnum(enum_format), s)].hourly_readings
                      = ReadingsDict(tasks[s].readings)

\* ------------------------------------------------------------------------
\* Properties of the cache read-back of daily_updater
\* ------------------------------------------------------------------------

\* The dates of the hourly readings a current-conditions document caches,
\* in the hourly_readings map write_current_station_data stores or in the
\* rows of hourly_readings_csv.
CachedDates(doc) ==
    IF "hourly_readings" \in DOMAIN doc
    THEN { DateOf(t) : t \in DOMAIN doc.hourly_readings }
    ELSE { DateOf(ReadingsCsv(doc)[i][1]) :
             i \in { j \in 2..Len(ReadingsCsv(doc)) : IsRow(ReadingsCsv(doc)[j]) } }

\* The document daily_updater.process_existing_station reads for a station.
CachedDoc(station_id) == station_current[DocId(ProviderValue, station_id)]

\* C14: when the current-conditions document of an existing station is the
\* one write_current_station_data wrote and its hourly readings are dated
\* yesterday and today, the daily averager returns success for yesterday
\* and the year document of yesterday holds an aggregate under yesterday
\* and under no other date of the window.
C14_CacheReadBack ==
    rpc # "idle" =>
        \A i \in 1..Len(results) :
            LET s == results[i].station_id
                yesterday == Yesterday(today)
                year_doc == readings[<<DocId(ProviderValue, s), yesterday[1]>>]
            IN  (/\ s \in existing_stations
                 /\ CachedDoc(s).exists
                 /\ "hourly_readings" \in DOMAIN CachedDoc(s)
                 /\ CachedDates(CachedDoc(s)) = {yesterday, today})
                => /\ results[i].status = "success"
                   /\ results[i].date = yesterday
                   /\ year_doc.exists
                   /\ yesterday \in DOMAIN year_doc.daily_readings
                   /\ today \notin DOMAIN year_doc.daily_readings

\* C15: when the cached hourly window of an existing station holds at least
\* one reading and none dated yesterday (every cached row being well formed),
\* the daily averager returns no_yesterday_data for the station.
C15_NoYesterdayData ==
    rpc # "idle" =>
        \A i \in 1..Len(results) :
            LET s == results[i].station_id
                csv == ReadingsCsv(CachedDoc(s))
            IN  (/\ s \in existing_stations
                 /\ CachedDoc(s).exists
                 /\ CachedDates(CachedDoc(s)) # {}
                 /\ csv # <<>> => ~ParseCsv(Tail(csv), Len(csv) - 1).raised
                 /\ Yesterday(today) \notin CachedDates(CachedDoc(s)))
                => results[i].status = "no_yesterday_data"

\* ------------------------------------------------------------------------
\* Properties of the ingestion of new stations
\* ------------------------------------------------------------------------

\* The years whose document exists for a station under a provider text.
YearsWritten(provider, station_id) ==
    { y \in Years : readings[<<DocId(provider, station_id), y>>].exists }

\* The year documents of a station file d dates in all, each date under the
\* year of its YYYY prefix, and none is empty.
FiledByYear(provider, station_id, d) ==
    LET docs == [y \in YearsWritten(provider, station_id) |->
                    readings[<<DocId(provider, station_id), y>>]]
        dates == UNION { DOMAIN docs[y].daily_readings : y \in DOMAIN docs }
    IN  /\ \A y \in DOMAIN docs :
              /\ DOMAIN docs[y].daily_readings # {}
              /\ \A date \in DOMAIN docs[y].daily_readings : date[1] = y
        /\ Cardinality(dates) = d

\* C16: a station that a run found without metadata document and whose
\* historical fetch returned d >= 1 days is, once the run has processed it
\* with its commit going through, counted as success, holds exactly one
\* metadata document and holds the d days in exactly N year documents, N the
\* number of distinct years, each date under the year of its prefix; in
\* daily_station_updater and in daily_updater alike.
C16_NewStationIngestion ==
    /\ (mpc # "idle" /\ ~args.dry_run) =>
          \A i \in 1..Len(new_stats) :
              LET r == new_stats[i]
                  provider == FormatEnum(enum_format)
              IN  (r.readings_fetched >= 1 /\ "error" \notin DOMAIN r) =>
                      /\ r.status = "success"
                      /\ metadata[DocId(provider, r.station_id)].exists
                      /\ Cardinality(YearsWritten(provider, r.station_id))
                            = r.years_written
                      /\ FiledByYear(provider, r.station_id, r.readings_fetched)
    /\ rpc # "idle" =>
          \A i \in 1..Len(results) :
              LET r == results[i]
              IN  (r.station_id \in new_stations /\ r.status = "success") =>
                      /\ \E p \in Providers : metadata[DocId(p, r.station_id)].exists
                      /\ FiledByYear(ProviderValue, r.station_id, r.days)

\* ------------------------------------------------------------------------
\* Properties of the missing cache
\* ------------------------------------------------------------------------

\* C20: when the daily averager finds no current-conditions document for an
\* existing station, the station's record carries a status of its own,
\* neither an error nor the status of a station that was updated, and the
\* station holds no year document written by the run; the loop goes on to
\* the next station (C11).  In daily_updater the status is no_cache.
C20_MissingCache ==
    /\ rpc # "idle" =>
          \A i \in 1..Len(results) :
              LET r == results[i]
              IN  (r.station_id \in existing_stations
                      /\ ~CachedDoc(r.station_id).exists) =>
                      /\ r.status = "no_cache"
                      /\ YearsWritten(ProviderValue, r.station_id) = {}
    /\ mpc # "idle" =>
          \A i \in 1..Len(existing_stats) :
              LET r == existing_stats[i]
                  provider == FormatEnum(enum_format)
              IN  (/\ ~station_current[DocId(provider, r.station_id)].exists
                   /\ "error" \notin DOMAIN r) =>
                      /\ r.status \notin {"success", "failed", "error"}
                      /\ YearsWritten(provider, r.station_id) = {}

\* ------------------------------------------------------------------------
\* Properties of the empty fetch window
\* ------------------------------------------------------------------------

\* C19: in a run of realtime_updater, a station whose fetch window is empty
\* ends with the status no_data, which is not the error status, and the
\* failed count of the run's summary counts no such station: it is the
\* number of records that are neither success nor no_data.
C19_NoDataNotFailure ==
    (upc = "gather" /\ Gathered /\ refresher = "realtime_updater") =>
        LET no_data == { i \in 1..Len(AllStats) : AllStats[i].status = "no_data" }
        IN  /\ \A i \in no_data : "error" \notin DOMAIN AllStats[i]
            /\ RefreshSummary(AllStats).failed
                  = Len(AllStats) - Successes(AllStats) - Cardinality(no_data)

\* ------------------------------------------------------------------------
\* The programs that take --dry-run
\* ------------------------------------------------------------------------

\* daily_station_updater and daily_realtime_updater, the two programs whose
\* argument parsers know --dry-run, over the stores of InitUpdaters.
InitDryRun == InitUpdaters

NextDryRun ==
    \/ \E stations \in SUBSET Stations, a \in ArgSets :
          FirstRun /\ MainStart(stations, a)
    \/ MainNewStation
    \/ MainExistingStation
    \/ MainSummary
    \/ \E stations \in SUBSET Stations, a \in ArgSets :
          FirstRun /\ RefreshStart("daily_realtime_updater", stations, a)
    \/ \E s \in Stations : UpdateStationStep(s)
    \/ RefreshEnd

SpecDryRun == InitDryRun /\ [][NextDryRun]_vars

\* ------------------------------------------------------------------------
\* Properties of --dry-run
\* ------------------------------------------------------------------------

\* A run of one of the two programs is under way.
Running == mpc # "idle" \/ upc # "idle"

\* C17: a run with --dry-run performs no store mutation.  No step of such a
\* run changes a metadata document, a year document or a current-conditions
\* document, and the run has made no store call (no batch commit, no set)
\* at any point.
C17_DryRunWritesNothing ==
    [][ (Running /\ args.dry_run) =>
            /\ metadata' = metadata
            /\ readings' = readings
            /\ station_current' = station_current
            /\ mutations = 0
            /\ mutations' = 0 ]_vars

\* A dry run of daily_station_updater with --force-historical is at its
\* summary: a new station whose history spans two years reports success and
\* has no metadata document, an existing station reports the daily reading
\* calculated from its cache and the years refetched, and no store call was
\* made.
C17_Witness ==
    /\ args.dry_run
    /\ args.force_historical
    /\ mutations = 0
    /\ mpc = "summary"
    /\ \E i \in 1..Len(new_stats) :
          /\ new_stats[i].status = "success"
          /\ new_stats[i].years_written = 2
          /\ ~metadata[DocId(FormatEnum(enum_format),
                             new_stats[i].station_id)].exists
    /\ \E i \in 1..Len(existing_stats) :
          /\ existing_stats[i].status = "success"
          /\ existing_stats[i].daily_reading_calculated
          /\ "years_updated" \in DOMAIN existing_stats[i]
          /\ existing_stats[i].years_updated > 0
          /\ \A y \in Years :
                ~readings[<<DocId(FormatEnum(enum_format),
                                  existing_stats[i].station_id), y>>].exists

\* C18: a live run of daily_realtime_updater and a dry run against the same
\* upstream and the same store return the same stats record for every
\* station: when a task of a live run has returned, and the store did not
\* refuse its write, its stats are the stats the same station gets under
\* --dry-run from the same upstream responses.
C18_DryRunEquivalence ==
    (refresher = "daily_realtime_updater" /\ upc = "gather" /\ ~args.dry_run) =>
        \A s \in DOMAIN tasks :
            (/\ tasks[s].pc = "done"
             /\ "error" \in DOMAIN tasks[s].stats
                    => tasks[s].stats.error # "GoogleAPIError")
                => tasks[s].stats = twin[s]

\* C27: a dry run issues the same upstream fetches as a live run.  In a live
\* run of daily_realtime_updater, once a station's task has made the
\* fetches after which the task of a dry run returns (twin holds the stats
\* of that return), the task has returned as well: it is not waiting for a
\* fetch the dry run never issues.
C27_DryRunSameReads ==
    (refresher = "daily_realtime_updater" /\ upc = "gather" /\ ~args.dry_run) =>
        \A s \in DOMAIN tasks :
            twin[s] # None => tasks[s].pc # "fetch_latest_readings"

\* ------------------------------------------------------------------------
\* Properties of the metadata of tracked stations
\* ------------------------------------------------------------------------

\* A year document of the station holds readings.
WroteReadings(station_id) ==
    \E y \in Years : readings[<<DocId(FormatEnum(enum_format), station_id), y>>].exists

\* C21: a successful update of a tracked station refreshes last_updated.
\* When a run of daily_updater or of daily_station_updater has collected,
\* for an existing station, a record with the status success, and the run
\* wrote readings of that station, the station's metadata document carries
\* a last_updated of this run and no longer the one an earlier run left.
C21_LastUpdatedRefreshed ==
    /\ rpc = "summary" =>
          \A i \in 1..Len(results) :
              (/\ results[i].station_id \in existing_stations
               /\ results[i].status = "success"
               /\ WroteReadings(results[i].station_id))
                  => metadata[DocId(FormatEnum(enum_format),
                                    results[i].station_id)].last_updated
                         = SERVER_TIMESTAMP
    /\ mpc = "summary" =>
          \A i \in 1..Len(existing_stats) :
              (/\ existing_stats[i].status = "success"
               /\ WroteReadings(existing_stats[i].station_id))
                  => metadata[DocId(FormatEnum(enum_format),
                                    existing_stats[i].station_id)].last_updated
                         = SERVER_TIMESTAMP

\* ------------------------------------------------------------------------
\* Properties of --force-historical
\* ------------------------------------------------------------------------

\* C28: a forced re-fetch bypasses the cache-derived path.  In a live run
\* of the combined updater with --force-historical, a tracked station whose
\* re-fetched daily means were written (its stats count the years updated)
\* gets no daily aggregate calculated from the current-conditions cache.
C28_ForceBypassesCache ==
    (args.force_historical /\ ~args.dry_run) =>
        \A i \in 1..Len(existing_stats) :
            "years_updated" \in DOMAIN existing_stats[i]
                => ~existing_stats[i].daily_reading_calculated

\* ------------------------------------------------------------------------
\* Properties of the metadata the combined updater creates
\* ------------------------------------------------------------------------

\* The metadata documents the run followed has created.  The documents the
\* earlier runs left carry EARLIER_TIMESTAMP; the year documents of their
\* backfills lie in years before the ones followed here.
CreatedInRun ==
    { d \in DocIds : /\ metadata[d].exists
                     /\ metadata[d].created_at = SERVER_TIMESTAMP }

\* The new stations whose backfill returned no data, and the ones whose
\* commit failed, process_new_station having returned.
NoData ==
    { new_stats[i].station_id :
        i \in { j \in 1..Len(new_stats) : new_stats[j].readings_fetched = 0 } }

CommitRefused ==
    { new_stats[i].station_id :
        i \in { j \in 1..Len(new_stats) :
                  /\ "error" \in DOMAIN new_stats[j]
                  /\ new_stats[j].years_written > 0 } }

\* C29: metadata implies data.  Through every run of the combined updater,
\* runs with failed commits included, a station whose metadata document the
\* run created has at least one year document of its backfill, and a new
\* station whose backfill returned no data, or whose commit failed, has no
\* metadata document.
C29_MetadataImpliesData ==
    /\ \A d \in CreatedInRun : \E y \in Years : readings[<<d, y>>].exists
    /\ \A s \in NoData \cup CommitRefused :
          ~metadata[DocId(FormatEnum(enum_format), s)].exists

\* A run has created the metadata of one new station beside its year
\* documents, and the commit of another new station has failed.
C29_Witness ==
    /\ mpc = "summary"
    /\ CreatedInRun # {}
    /\ CommitRefused # {}
    /\ \A d \in CreatedInRun : \E y \in Years : readings[<<d, y>>].exists

\* ------------------------------------------------------------------------
\* The functions of the pipeline, one call at a time
\* ------------------------------------------------------------------------

\* The timestamps of the hourly readings handed to the aggregator: two
\* hours of one day and the first hour of the next.
AggregateTimes == {<<2024, 1, 22>>, <<2024, 1, 23>>, <<2024, 2, 0>>}

\* Their samples: each measurement absent, 0 or a value; 0.012 and 0.016
\* have more digits than mean_discharge keeps.
AggregateSamples ==
    [discharge : {None, Some(0), Some(12), Some(16)},
     level : {None, Some(1), Some(3)}]

\* hourly_readings arguments: samples at any of the timestamps.
AggregateInputs == UNION { [S -> AggregateSamples] : S \in SUBSET AggregateTimes }

\* The reading dicts process_existing_station of daily_updater builds from
\* the rows of the CSV text: a measurement has a key only when it is there.
YesterdayReadings ==
    { [k \in {"datetime"} \cup { f \in {"discharge", "level"} : m[f] # None } |->
          IF k = "datetime" THEN t ELSE m[k][1]] :
         t \in AggregateTimes, m \in AggregateSamples }

\* hourly_readings arguments of calculate_daily_average_for_yesterday: up to
\* two readings in any order.
YesterdayInputs ==
    {<<>>} \cup { <<r>> : r \in YesterdayReadings }
           \cup { p \in YesterdayReadings \X YesterdayReadings :
                      p[1].datetime # p[2].datetime }

\* The levels of the readings handed to get_station_status: absent, 0,
\* 1.000, and 0.050 and 0.051 above it.
TrendLevels == {None, Some(0), Some(1000), Some(1050), Some(1051)}

\* The results of fetch_latest_readings(station_id, hours=48) it may work
\* on, most recent reading first: up to 8 readings; the first and the last
\* two carry any of the levels, the ones between them 1.000 or none.
TrendWindows ==
    UNION { { [i \in 1..n |-> Reading("08GA072", <<2024, 1, 24 - i>>, Some(2), l[i])] :
                 l \in { m \in [1..n -> TrendLevels] :
                            \A i \in 2..(n - 2) : m[i] \in {None, Some(1000)} } } :
            n \in 0..8 }

\* models.calculate_trend: the difference of the two levels against the
\* threshold of 0.05.
calculate_trend(previous_level, current_level) ==
    IF previous_level = None \/ current_level = None THEN "stable"
    ELSE LET difference == current_level[1] - previous_level[1]
         IN  IF difference > TrendThreshold THEN "rising"
             ELSE IF difference < -TrendThreshold THEN "falling"
             ELSE "stable"

\* The texts a river_runs document may carry as a station code: two codes,
\* a code that already has the provider prefix, and the empty text.
RunCodes == {"08GA072", "08NM116", "environment_canada_08GA072", ""}

\* code.startswith('environment_canada_').
StartsWithPrefix(code) == code = "environment_canada_08GA072"

\* The river_runs documents: stationId absent or a text; gaugeStation
\* absent, a text, or a dict with or without a code.
RiverRuns ==
    { [k \in K |-> IF k = "stationId" THEN c ELSE g] :
         K \in SUBSET {"stationId", "gaugeStation"},
         c \in RunCodes,
         g \in {[type |-> "str"], [type |-> "dict"]}
                \cup { [type |-> "dict", code |-> x] : x \in RunCodes } }

\* What runs_ref.stream() may yield: up to two documents.
RiverRunStreams ==
    {<<>>} \cup { <<d>> : d \in RiverRuns } \cup (RiverRuns \X RiverRuns)

\* "gauge_station and isinstance(gauge_station, dict)" and a code in it.
HasCode(gauge_station) ==
    gauge_station.type = "dict" /\ "code" \in DOMAIN gauge_station

\* The codes one document adds to the set, and a discovery that does not
\* skip the codes with the provider prefix.
CodesOfAny(data) ==
    { c \in RunCodes :
         \/ /\ "stationId" \in DOMAIN data
            /\ data.stationId = c
            /\ c # ""
         \/ /\ "gaugeStation" \in DOMAIN data
            /\ HasCode(data.gaugeStation)
            /\ data.gaugeStation.code = c
            /\ c # "" }

CodesOf(data) ==
    { c \in RunCodes :
         \/ /\ "stationId" \in DOMAIN data
            /\ data.stationId = c
            /\ c # ""
            /\ ~StartsWithPrefix(c)
         \/ /\ "gaugeStation" \in DOMAIN data
            /\ HasCode(data.gaugeStation)
            /\ data.gaugeStation.code = c
            /\ c # ""
            /\ ~StartsWithPrefix(c) }

\* StationDataManager.get_all_river_run_stations: the set of the provider,
\* left out of the dict when it is empty.
get_all_river_run_stations(docs) ==
    LET stations == UNION { CodesOf(docs[i]) : i \in 1..Len(docs) }
    IN  [provider \in { x \in {ProviderValue} : stations # {} } |-> stations]

\* The calls followed.
Calls ==
    { [fn |-> "calculate_daily_averages_from_realtime", hourly |-> h] :
         h \in AggregateInputs }
    \cup { [fn |-> "calculate_daily_average_for_yesterday", hourly_readings |-> h,
            now |-> <<2024, 2>>] : h \in YesterdayInputs }
    \cup { [fn |-> "get_station_status", station_id |-> "08GA072", readings |-> w] :
            w \in TrendWindows }
    \cup { [fn |-> "calculate_trend", previous_level |-> a, current_level |-> b] :
            a \in TrendLevels, b \in TrendLevels }
    \cup { [fn |-> "get_all_river_run_stations", docs |-> d] : d \in RiverRunStreams }

\* calculate_daily_averages_from_realtime(hourly_readings, logger) returns.
CallAggregate ==
    /\ call.fn = "calculate_daily_averages_from_realtime"
    /\ ret = NotReturned
    /\ ret' = [returned |-> TRUE,
               value |-> calculate_daily_averages_from_realtime(call.hourly)]
    /\ UNCHANGED <<call, storeVars, batchVars, fetchVars, dailyVars, mainVars,
                   refreshVars>>

\* calculate_daily_average_for_yesterday(hourly_readings) returns.
CallAverageForYesterday ==
    /\ call.fn = "calculate_daily_average_for_yesterday"
    /\ ret = NotReturned
    /\ ret' = [returned |-> TRUE,
               value |-> calculate_daily_average_for_yesterday(
                             call.hourly_readings, call.now)]
    /\ UNCHANGED <<call, storeVars, batchVars, fetchVars, dailyVars, mainVars,
                   refreshVars>>

\* get_station_status(station_id) returns, its fetch having returned the
\* readings.
CallStationStatus ==
    /\ call.fn = "get_station_status"
    /\ ret = NotReturned
    /\ ret' = [returned |-> TRUE,
               value |-> get_station_status(call.station_id, call.readings)]
    /\ UNCHANGED <<call, storeVars, batchVars, fetchVars, dailyVars, mainVars,
                   refreshVars>>

\* calculate_trend(previous_level, current_level) returns.
CallCalculateTrend ==
    /\ call.fn = "calculate_trend"
    /\ ret = NotReturned
    /\ ret' = [returned |-> TRUE,
               value |-> calculate_trend(call.previous_level, call.current_level)]
    /\ UNCHANGED <<call, storeVars, batchVars, fetchVars, dailyVars, mainVars,
                   refreshVars>>

\* get_all_river_run_stations() returns.
CallRiverRunStations ==
    /\ call.fn = "get_all_river_run_stations"
    /\ ret = NotReturned
    /\ ret' = [returned |-> TRUE, value |-> get_all_river_run_stations(call.docs)]
    /\ UNCHANGED <<call, storeVars, batchVars, fetchVars, dailyVars, mainVars,
                   refreshVars>>

InitPure ==
    /\ StoreEmpty /\ BatchIdle /\ FetchIdle /\ DailyIdle /\ MainIdle /\ RefreshIdle
    /\ call \in Calls
    /\ ret = NotReturned

NextPure ==
    \/ CallAggregate
    \/ CallAverageForYesterday
    \/ CallStationStatus
    \/ CallCalculateTrend
    \/ CallRiverRunStations

SpecPure == InitPure /\ [][NextPure]_vars

\* ------------------------------------------------------------------------
\* Properties of the aggregators
\* ------------------------------------------------------------------------

\* The aggregator has returned.
Aggregated == call.fn = "calculate_daily_averages_from_realtime" /\ ret.returned

\* The timestamps of the input on a date whose sample carries the field.
Present(date, field) ==
    { t \in DOMAIN call.hourly : DateOf(t) = date /\ call.hourly[t][field] # None }

\* C22: the result of calculate_daily_averages_from_realtime has an entry
\* for a date if and only if a reading of that date carries a discharge or
\* a level; every entry holds at least one mean, so a date without any
\* measurement gets no entry, not an empty or zero one.
C22_AggregatorKeySet ==
    Aggregated =>
        /\ \A date \in { DateOf(t) : t \in AggregateTimes } :
              date \in DOMAIN ret.value
                  <=> Present(date, "discharge") \cup Present(date, "level") # {}
        /\ DOMAIN ret.value \subseteq { DateOf(t) : t \in AggregateTimes }
        /\ \A date \in DOMAIN ret.value : DOMAIN ret.value[date] # {}

\* The aggregator returned for readings of two dates, the first with
\* readings that all lack both measurements, the second with a measurement:
\* the result holds the second date only.
C22_Witness ==
    /\ Aggregated
    /\ { t \in DOMAIN call.hourly : DateOf(t) = <<2024, 1>> } = {<<2024, 1, 22>>, <<2024, 1, 23>>}
    /\ Present(<<2024, 1>>, "discharge") \cup Present(<<2024, 1>>, "level") = {}
    /\ Present(<<2024, 2>>, "level") # {}
    /\ DOMAIN ret.value = {<<2024, 2>>}

\* calculate_daily_average_for_yesterday has returned.
AveragedYesterday == call.fn = "calculate_daily_average_for_yesterday" /\ ret.returned

\* The readings of yesterday in its argument that carry the field.
PresentYesterday(field) ==
    { i \in 1..Len(call.hourly_readings) :
         /\ DateOf(call.hourly_readings[i]["datetime"]) = Yesterday(call.now)
         /\ field \in DOMAIN call.hourly_readings[i] }

\* The sum of the values of a function with a finite domain.
RECURSIVE Total(_)
Total(f) ==
    IF DOMAIN f = {} THEN 0
    ELSE LET x == CHOOSE y \in DOMAIN f : TRUE
         IN  f[x] + Total([y \in DOMAIN f \ {x} |-> f[y]])

\* The measurement a mean field averages, and the step of its rounding.
FieldOf(mean) == IF mean = "mean_discharge" THEN "discharge" ELSE "level"
StepOf(mean) == IF mean = "mean_discharge" THEN 10 ELSE 1

\* The values an aggregate of a date averages under a mean field.
ValuesOf(date, mean) ==
    IF call.fn = "calculate_daily_averages_from_realtime"
    THEN [t \in Present(date, FieldOf(mean)) |-> call.hourly[t][FieldOf(mean)][1]]
    ELSE [i \in PresentYesterday(FieldOf(mean)) |->
             call.hourly_readings[i][FieldOf(mean)]]

\* mean is n times out, up to the distance tolerance (in n-ths).
Near(out, total, n, tolerance) ==
    /\ 2 * (out * n - total) <= tolerance * n
    /\ 2 * (total - out * n) <= tolerance * n

\* For every date of the result and each of the two means: the field is
\* there iff a reading of the date carries the measurement, and its value
\* lies within half a tolerance of the mean of exactly those measurements.
MeansWithin(exact) ==
    (Aggregated \/ AveragedYesterday) =>
        \A date \in DOMAIN ret.value : \A mean \in {"mean_discharge", "mean_level"} :
            LET values == ValuesOf(date, mean)
                n == Cardinality(DOMAIN values)
            IN  /\ mean \in DOMAIN ret.value[date] <=> n > 0
                /\ n > 0 =>
                      /\ Near(ret.value[date][mean], Total(values), n,
                              IF exact THEN 0 ELSE StepOf(mean))
                      /\ ret.value[date][mean] % StepOf(mean) = 0

\* C23 as stated: each mean of the result is the arithmetic mean of exactly
\* the non-absent values of its date and series, a mean field being present
\* iff its series has such a value.
C23_AggregatorValuesExact == MeansWithin(TRUE)

\* C23 as amended: each mean of the result is the arithmetic mean of exactly
\* the non-absent values of its date and series rounded to 2 decimals
\* (discharge) or 3 decimals (level): a multiple of 0.01 or 0.001 at most
\* half of it away from the mean; a mean field is present iff its series
\* has a non-absent value that day, and the two are computed independently.
C23_AggregatorValues == MeansWithin(FALSE)

\* The aggregator returned for a date with the discharges 0.012 and absent
\* and the levels absent and 0.003: mean_discharge is 0.01, not 0.006 (the
\* absent value counted as zero), and mean_level is 0.003.
C23_Witness ==
    /\ Aggregated
    /\ call.hourly = [t \in {<<2024, 1, 22>>, <<2024, 1, 23>>} |->
                         IF t = <<2024, 1, 22>>
                         THEN [discharge |-> Some(12), level |-> None]
                         ELSE [discharge |-> None, level |-> Some(3)]]
    /\ ret.value = [d \in {<<2024, 1>>} |->
                       [mean_discharge |-> 10, mean_level |-> 3]]

\* ------------------------------------------------------------------------
\* Properties of the trend
\* ------------------------------------------------------------------------

\* The positions, among the 7 most recent readings of the argument, of the
\* readings that carry a level, and of those whose level is not 0 either.
LevelSamples ==
    { i \in 1..Len(call.readings) : i <= 7 /\ call.readings[i].level # None }

NonZeroLevelSamples == { i \in LevelSamples : call.readings[i].level[1] # 0 }

\* The trend of a change of level.
Classified(newest, older) ==
    IF newest - older > TrendThreshold THEN "rising"
    ELSE IF newest - older < -TrendThreshold THEN "falling"
    ELSE "stable"

\* The trend of the change from the oldest to the most recent of the level
\* samples at the positions S; stable with fewer than two of them.
TrendAcross(S) ==
    LET newest == CHOOSE i \in S : \A j \in S : i <= j
        older == CHOOSE i \in S : \A j \in S : j <= i
    IN  IF Cardinality(S) >= 2
        THEN Classified(call.readings[newest].level[1], call.readings[older].level[1])
        ELSE "stable"

\* C24: the trend of get_station_status is rising iff the most recent level
\* sample exceeds the oldest level sample of the window by more than 0.05,
\* falling iff it lies more than 0.05 below it, and stable otherwise: with a
\* change of exactly 0.05 either way and with fewer than two level samples.
\* calculate_trend classifies the change from the previous to the current
\* level the same way, and an absent level as stable.
C24_TrendClassification ==
    /\ (call.fn = "get_station_status" /\ ret.returned /\ call.readings # <<>>) =>
          ret.value.trend = TrendAcross(LevelSamples)
    /\ (call.fn = "calculate_trend" /\ ret.returned) =>
          ret.value =
              IF call.previous_level = None \/ call.current_level = None
              THEN "stable"
              ELSE Classified(call.current_level[1], call.previous_level[1])

\* The readings without the 8th, a level of 0 taken for an absent one.
ZeroAsAbsent(window) ==
    [i \in 1..(IF Len(window) < 7 THEN Len(window) ELSE 7) |->
        IF window[i].level = Some(0) THEN [window[i] EXCEPT !.level = None]
        ELSE window[i]]

Appears(code) ==
    \E i \in 1..Len(call.docs) :
        \/ /\ "stationId" \in DOMAIN call.docs[i]
           /\ call.docs[i].stationId = code
        \/ /\ "gaugeStation" \in DOMAIN call.docs[i]
           /\ HasCode(call.docs[i].gaugeStation)
           /\ call.docs[i].gaugeStation.code = code

\* The station codes get_all_river_run_stations returned.
Discovered ==
    IF ProviderValue \in DOMAIN ret.value THEN ret.value[ProviderValue] ELSE {}

\* C25 as stated: a code belongs to the result of get_all_river_run_stations
\* iff it is the stationId or the gaugeStation.code of a river-run document.
C25_DiscoveryAllCodes ==
    (call.fn = "get_all_river_run_stations" /\ ret.returned) =>
        \A code \in RunCodes \ {""} : code \in Discovered <=> Appears(code)

\* C25 as amended: the result of get_all_river_run_stations is a set, so it
\* holds each code once, and a code belongs to it iff it does not start
\* with 'environment_canada_' and is the stationId or the gaugeStation.code
\* of a river-run document; the dict has no entry without such a code.
C25_Discovery ==
    (call.fn = "get_all_river_run_stations" /\ ret.returned) =>
        /\ \A code \in RunCodes \ {""} :
              code \in Discovered <=> (Appears(code) /\ ~StartsWithPrefix(code))
        /\ Discovered \subseteq RunCodes \ {""}
        /\ DOMAIN ret.value = IF Discovered = {} THEN {} ELSE {ProviderValue}

\* The discovery returned for two runs: one carries 08GA072 in both fields,
\* the other carries it as stationId and 08NM116 as gaugeStation.code; the
\* result holds the two codes.
C25_Witness ==
    /\ call.fn = "get_all_river_run_stations"
    /\ ret.returned
    /\ call.docs = <<[stationId |-> "08GA072",
                      gaugeStation |-> [type |-> "dict", code |-> "08GA072"]],
                     [stationId |-> "08GA072",
                      gaugeStation |-> [type |-> "dict", code |-> "08NM116"]]>>
    /\ ret.value = [p \in {ProviderValue} |-> {"08GA072", "08NM116"}]

====
